---------------------------- MODULE Spec2Model ----------------------------
(***************************************************************************)
(* A model of glib_log_bridge: the bridge between GLib's structured log    *)
(* (log fields, log domains, log level flags) and Python's logging         *)
(* (log records, dotted logger names, integer levels).                     *)
(*                                                                         *)
(*   glib2python.Logger      GLib -> Python  (logWriterFunc,               *)
(*                                            logHandlerFunc)              *)
(*   python2glib.*Handler    Python -> GLib  (emit)                        *)
(*                                                                         *)
(* Specifications.                                                         *)
(*   Spec             the running bridge: GLib calls the writer and the    *)
(*                    handler function, logging calls emit                 *)
(*   SpecLevelToGlib  _level_to_glib on every level                        *)
(*   SpecGetLogLevel  _get_log_level on every GLib level and PRIORITY      *)
(*   SpecCodec        _convert_fields, then _fields_to_dict                *)
(*   SpecIngress      logWriterFunc on every GLIB_DOMAIN and MESSAGE       *)
(*   SpecDecode       _fields_to_dict on every LogField                    *)
(*   SpecEgress       a record given to one or two handlers of python2glib *)
(*   SpecNames        _get_logger_name and _get_log_domain, one after the  *)
(*                    other                                                *)
(*   SpecGetFields    _get_fields on records with and without exceptions   *)
(*   SpecFilter       FilterGLibMessagesDebug.filter                       *)
(*   SpecCallSite     the fields of _get_fields handed to logWriterFunc    *)
(*                                                                         *)
(* Data representation.                                                    *)
(*   text (str)      a sequence of code points                             *)
(*   bytes           a sequence of integers 0..255                         *)
(*   a Python value  [tag, val]: tag is "str", "bytes", "int" or "none"    *)
(*                   and val the code points, the bytes, <<n>> or <<>>     *)
(*   a dict          a function from its keys to their values; the model   *)
(*                   iterates it in the fixed order DictOrder              *)
(*   a GLib.LogField [key, length, value, mem]: value is the address (0 is *)
(*                   NULL) and mem the bytes found at that address         *)
(***************************************************************************)
EXTENDS Integers, Sequences, FiniteSets, TLC

VARIABLES
    logger_prefix,       \* glib2python.Logger.logger_prefix
    logger_suffix,       \* glib2python.Logger.logger_suffix
    use_priority_field,  \* glib2python.Logger.use_priority_field
    pc,                  \* the operation that ran last ("init" before any)
    call,                \* the arguments of that operation
    ret,                 \* what it returned
    raised,              \* whether an exception left the operation
    dispatched,          \* the Logger.handle calls of that operation, in order
    native,              \* the calls into GLib of that operation, in order
    nInvoke,             \* invocations of logWriterFunc so far
    nHandle,             \* calls of Logger.handle so far
    nHandled,            \* invocations that returned HANDLED
    nUnhandled,          \* invocations that returned UNHANDLED
    nHandleRaised        \* invocations whose call of Logger.handle raised

vars == <<logger_prefix, logger_suffix, use_priority_field, pc, call, ret,
          raised, dispatched, native, nInvoke, nHandle, nHandled, nUnhandled,
          nHandleRaised>>

---------------------------------------------------------------------------
(* Bounds of the model *)

\* longest text value drawn as an input
MaxTextLen == 2
\* longest byte value drawn as an input
MaxBytesLen == 2
\* invocations of logWriterFunc in one run
MaxInvoke == 2

---------------------------------------------------------------------------
(* Python values *)

StrVal(s) == [tag |-> "str", val |-> s]
BytesVal(b) == [tag |-> "bytes", val |-> b]
IntVal(n) == [tag |-> "int", val |-> <<n>>]
NoneVal == [tag |-> "none", val |-> <<>>]

\* the code points the model writes out
NUL == 0
Hyphen == 45
Dot == 46
ReplacementChar == 65533

\* the control flow of a Python call: a value returned or an exception raised
Return(v) == [raised |-> FALSE, value |-> v]
Raise(e) == [raised |-> TRUE, value |-> e]

\* "name = v", then the rest of the function computed from the name
With(v, F(_)) == F(v)

\* a call that may raise, then the rest of the function: an exception of the
\* call ends the function, its value goes on to the rest
Bind(r, F(_)) == IF r.raised THEN r ELSE F(r.value)

RECURSIVE SeqMap(_, _)
SeqMap(F(_), s) == IF s = <<>> THEN <<>> ELSE <<F(Head(s))>> \o SeqMap(F, Tail(s))

\* all sequences over S of length at most n
SeqsUpTo(S, n) == UNION {[1..k -> S] : k \in 0..n}

\* the index of the first x in s, 0 when there is none
RECURSIVE IndexOf(_, _)
IndexOf(s, x) ==
    IF s = <<>> THEN 0
    ELSE IF Head(s) = x THEN 1
    ELSE LET r == IndexOf(Tail(s), x) IN IF r = 0 THEN 0 ELSE r + 1

---------------------------------------------------------------------------
(* dict: a function from its keys to their values.  Python keeps a dict in *)
(* insertion order, which only the iteration of a dict can see; here a     *)
(* dict is iterated in the order of DictOrder.                             *)

EmptyDict == [k \in {} |-> k]

DictKeys(d) == DOMAIN d

DictHas(d, k) == k \in DOMAIN d

\* d.get(k, default)
DictGet(d, k, default) == IF k \in DOMAIN d THEN d[k] ELSE default

\* d[k] = v
DictSet(d, k, v) == (k :> v) @@ d

\* d.update(other)
\* dict.setdefault for every entry of other: a merge in which the entries
\* already present win, the opposite of update
DictUpdateKeepingOld(d, other) == d @@ other

\* an assignment in the place of the update: "fields = other"
DictReplacedBy(d, other) == other

DictUpdate(d, other) == other @@ d

\* the keys in the order the handlers insert them, those that only
\* glib_fields brings last
DictOrder ==
    <<"MESSAGE", "CODE_FUNC", "CODE_FILE", "CODE_LINE", "PYTHON_MESSAGE",
      "PYTHON_MODULE", "PYTHON_LOGGER", "PYTHON_TNAME", "PYTHON_TID",
      "PYTHON_EXC", "PYTHON_EXC_MESSAGE", "GLIB_DOMAIN", "PRIORITY", "CODE_PATH">>

\* list(d.items())
DictItems(d) ==
    LET InDict(k) == k \in DOMAIN d
        keys == SelectSeq(DictOrder, InDict)
    IN [i \in 1..Len(keys) |-> [key |-> keys[i], value |-> d[keys[i]]]]

---------------------------------------------------------------------------
(* UTF-8, for code points below 0x800 (one- and two-byte sequences) *)

EncodeChar(c) ==
    IF c < 128 THEN <<c>> ELSE <<192 + (c \div 64), 128 + (c % 64)>>

\* str.encode('utf-8')
\* str.encode('latin-1') for code points below 256: a different codec, whose
\* bytes are not the UTF-8 ones for any code point above 127
Latin1Encode(s) == s

RECURSIVE Utf8Encode(_)
Utf8Encode(s) ==
    IF s = <<>> THEN <<>> ELSE EncodeChar(Head(s)) \o Utf8Encode(Tail(s))

IsContinuation(b) == b >= 128 /\ b <= 191

\* The decoder's scan: the code points in order, -1 where a byte starts no
\* valid sequence (an invalid start byte, or a lead byte whose continuation
\* is missing); the scan resumes at the byte after the offending one.
RECURSIVE Utf8Scan(_)
Utf8Scan(b) ==
    IF b = <<>> THEN <<>>
    ELSE IF b[1] < 128 THEN <<b[1]>> \o Utf8Scan(Tail(b))
    ELSE IF b[1] >= 194 /\ b[1] <= 223 /\ Len(b) >= 2 /\ IsContinuation(b[2])
         THEN <<(b[1] - 192) * 64 + (b[2] - 128)>> \o Utf8Scan(Tail(Tail(b)))
    ELSE <<-1>> \o Utf8Scan(Tail(b))

OrReplacement(c) == IF c = -1 THEN ReplacementChar ELSE c

\* a decoding that never fails: errors='replace' where the code asks for
\* errors='strict'
Utf8DecodeNeverFails(b) == Return(SeqMap(OrReplacement, Utf8Scan(b)))

\* bytes.decode(errors='strict'): the text, or UnicodeDecodeError
Utf8DecodeStrict(b) ==
    LET s == Utf8Scan(b)
    IN IF IndexOf(s, -1) = 0 THEN Return(s) ELSE Raise("UnicodeDecodeError")

\* bytes.decode(errors='replace'): never fails
Utf8DecodeReplace(b) == SeqMap(OrReplacement, Utf8Scan(b))

---------------------------------------------------------------------------
(* GLib.LogField and the ctypes accesses *)

NULL == 0

LogField(k, n, p, m) == [key |-> k, length |-> n, value |-> p, mem |-> m]

\* ctypes.create_string_buffer(b): the bytes and a terminating NUL
StringBuffer(b) == b \o <<NUL>>

\* ctypes.c_char_p(address).value: the bytes up to the first NUL
CharPValue(mem) ==
    LET i == IndexOf(mem, NUL)
    IN IF i = 0 THEN mem ELSE SubSeq(mem, 1, i - 1)

\* a read of the buffer as a C string, which stops at the first NUL, where
\* the code reads the declared length
BytesAtUpToNul(mem, n) == CharPValue(SubSeq(mem, 1, n))

\* bytes((c_byte * n).from_address(address)): the first n bytes
BytesAt(mem, n) == SubSeq(mem, 1, n)

\* decimal digits of a natural number, as code points
RECURSIVE Digits(_)
Digits(n) == IF n < 10 THEN <<48 + n>> ELSE Digits(n \div 10) \o <<48 + (n % 10)>>

\* str(value)
PyStr(v) ==
    CASE v.tag = "str" -> v.val
      [] v.tag = "int" -> IF v.val[1] < 0 THEN <<Hyphen>> \o Digits(-v.val[1])
                          ELSE Digits(v.val[1])
      [] v.tag = "none" -> <<78, 111, 110, 101>>
      [] v.tag = "variant_s" -> <<39>> \o v.val \o <<39>>
      [] OTHER -> <<>>

---------------------------------------------------------------------------
(* python2glib.GLibWriterHandler._convert_fields *)

\* a pass of the loop that gives a text its length, as it gives every other
\* value
ConvertFieldAllSized(entry) ==
    LET b == IF entry.value.tag = "bytes" THEN entry.value.val
             ELSE Utf8Encode(PyStr(entry.value))
    IN LogField(entry.key, Len(b), 1, b)

\* one pass of the loop: the LogField of one dict entry
ConvertField(entry) ==
    IF entry.value.tag = "str"
    THEN LogField(entry.key, -1, 1, StringBuffer(Utf8Encode(entry.value.val)))
    ELSE LET b == IF entry.value.tag = "bytes" THEN entry.value.val
                  ELSE Utf8Encode(PyStr(entry.value))
         IN LogField(entry.key, Len(b), 1, b)

convert_fields(fields) == SeqMap(ConvertField, DictItems(fields))

---------------------------------------------------------------------------
(* glib2python.Logger._fields_to_dict *)

\* the value of one LogField with the test of the null pointer left to the
\* branch of length -1, where c_char_p(0).value is None and gives ""
FieldValueNullAsText(field) ==
    IF field.length = 0 THEN BytesVal(<<>>)
    ELSE IF field.length = -1
         THEN IF field.value = NULL THEN StrVal(<<>>)
              ELSE StrVal(Utf8DecodeReplace(CharPValue(field.mem)))
    ELSE BytesVal(BytesAt(field.mem, field.length))

\* the value of one LogField
FieldValue(field) ==
    IF field.value = NULL \/ field.length = 0 THEN BytesVal(<<>>)
    ELSE IF field.length = -1
         THEN LET raw_value == CharPValue(field.mem)
                  decoded == Utf8DecodeStrict(raw_value)
              IN IF decoded.raised THEN BytesVal(raw_value) ELSE StrVal(decoded.value)
    ELSE BytesVal(BytesAt(field.mem, field.length))

RECURSIVE FieldsToDictFrom(_, _)
FieldsToDictFrom(fields, logfields) ==
    IF logfields = <<>> THEN fields
    ELSE FieldsToDictFrom(
             DictSet(fields, Head(logfields).key, FieldValue(Head(logfields))),
             Tail(logfields))

fields_to_dict(logfields) == FieldsToDictFrom(EmptyDict, logfields)

---------------------------------------------------------------------------
(* Levels of Python's logging and GLib.LogLevelFlags *)

CRITICAL == 50
ERROR == 40
WARNING == 30
INFO == 20
DEBUG == 10

FLAG_RECURSION == 1
FLAG_FATAL == 2
LEVEL_ERROR == 4
LEVEL_CRITICAL == 8
LEVEL_WARNING == 16
LEVEL_MESSAGE == 32
LEVEL_INFO == 64
LEVEL_DEBUG == 128

\* a & b on natural numbers
RECURSIVE BitAnd(_, _)
BitAnd(a, b) ==
    IF a = 0 \/ b = 0 THEN 0
    ELSE (a % 2) * (b % 2) + 2 * BitAnd(a \div 2, b \div 2)

\* x & GLib.LogLevelFlags.LEVEL_MASK, the mask being
\* ~(FLAG_RECURSION | FLAG_FATAL): every bit but the two flag bits
AndLevelMask(x) == x - BitAnd(x, FLAG_RECURSION + FLAG_FATAL)

\* sorted(S), ascending
RECURSIVE Sorted(_)
Sorted(S) ==
    IF S = {} THEN <<>>
    ELSE LET m == CHOOSE x \in S : \A y \in S : x <= y
         IN <<m>> \o Sorted(S \ {m})

\* sorted(S, reverse=True)
\* sorted(S) where the code asks for sorted(S, reverse=True)
SortedNotReversed(S) == Sorted(S)

RECURSIVE SortedReverse(_)
SortedReverse(S) ==
    IF S = {} THEN <<>>
    ELSE LET m == CHOOSE x \in S : \A y \in S : x >= y
         IN <<m>> \o SortedReverse(S \ {m})

---------------------------------------------------------------------------
(* python2glib.LoggerHandler._level_to_glib *)

\* the one-to-one map the comment in _level_to_glib_map rules out: CRITICAL
\* and ERROR forwarded as their GLib equivalents
level_to_glib_map_equivalents ==
    (CRITICAL :> LEVEL_CRITICAL) @@ (ERROR :> LEVEL_ERROR)
    @@ (WARNING :> LEVEL_WARNING) @@ (INFO :> LEVEL_INFO)
    @@ (DEBUG :> LEVEL_DEBUG)

level_to_glib_map ==
    (CRITICAL :> LEVEL_WARNING) @@ (ERROR :> LEVEL_WARNING)
    @@ (WARNING :> LEVEL_WARNING) @@ (INFO :> LEVEL_INFO)
    @@ (DEBUG :> LEVEL_DEBUG)

\* the for loop over the sorted keys, from position i on
RECURSIVE LevelToGlibScan(_, _, _, _)
LevelToGlibScan(map, keys, level, default) ==
    IF keys = <<>> THEN default
    ELSE IF level >= Head(keys) THEN map[Head(keys)]
    ELSE LevelToGlibScan(map, Tail(keys), level, default)

level_to_glib(level, default) ==
    LevelToGlibScan(level_to_glib_map, SortedReverse(DOMAIN level_to_glib_map),
                    level, default)

\* the default of the default parameter
LevelToGlibDefault == LEVEL_DEBUG

---------------------------------------------------------------------------
(* glib2python.Logger._get_log_level *)

\* a Logger object: the attributes set by its constructor
Logger(prefix, suffix, use_priority) ==
    [logger_prefix |-> prefix, logger_suffix |-> suffix,
     use_priority_field |-> use_priority]

\* a map that takes LEVEL_MESSAGE for a warning
glib_level_map_message_warning ==
    (LEVEL_ERROR :> ERROR) @@ (LEVEL_CRITICAL :> CRITICAL)
    @@ (LEVEL_WARNING :> WARNING) @@ (LEVEL_MESSAGE :> WARNING)
    @@ (LEVEL_INFO :> INFO) @@ (LEVEL_DEBUG :> DEBUG)

glib_level_map ==
    (LEVEL_ERROR :> ERROR) @@ (LEVEL_CRITICAL :> CRITICAL)
    @@ (LEVEL_WARNING :> WARNING) @@ (LEVEL_MESSAGE :> INFO)
    @@ (LEVEL_INFO :> INFO) @@ (LEVEL_DEBUG :> DEBUG)

\* keyed by the text of one digit
log_level_priority_map ==
    (<<48>> :> CRITICAL) @@ (<<49>> :> WARNING) @@ (<<50>> :> CRITICAL)
    @@ (<<51>> :> ERROR) @@ (<<52>> :> CRITICAL) @@ (<<53>> :> INFO)
    @@ (<<54>> :> INFO) @@ (<<55>> :> DEBUG)

\* a lookup that compares the content only, so that b"3" would find "3"
InPriorityMapAnyType(priority) == priority.val \in DOMAIN log_level_priority_map

\* priority in self._log_level_priority_map: only a str equals a str key
InPriorityMap(priority) ==
    priority.tag = "str" /\ priority.val \in DOMAIN log_level_priority_map

RECURSIVE GlibLevelScan(_, _, _)
GlibLevelScan(keys, log_level, default) ==
    IF keys = <<>> THEN default
    ELSE IF BitAnd(Head(keys), log_level) # 0 THEN glib_level_map[Head(keys)]
    ELSE GlibLevelScan(Tail(keys), log_level, default)

\* the fallback: the scan of the masked GLib level
GlibLevelFallback(log_level, default) ==
    GlibLevelScan(Sorted(DOMAIN glib_level_map), AndLevelMask(log_level), default)

get_log_level(self, fields, log_level, default) ==
    LET priority == DictGet(fields, "PRIORITY", NoneVal)
    IN IF priority # NoneVal /\ self.use_priority_field /\ InPriorityMap(priority)
       THEN log_level_priority_map[priority.val]
       ELSE GlibLevelFallback(log_level, default)

\* the default of the default parameter
GetLogLevelDefault == INFO

---------------------------------------------------------------------------
(* glib2python.Logger: from the fields to the record *)

\* the text left as it is, no character replaced
ReplaceNone(s, a, b) == s

\* str.replace(a, b) for single characters
Replace(s, a, b) == [i \in 1..Len(s) |-> IF s[i] = a THEN b ELSE s[i]]

IsDigit(c) == c >= 48 /\ c <= 57

RECURSIVE DigitsValue(_, _)
DigitsValue(s, acc) ==
    IF s = <<>> THEN acc ELSE DigitsValue(Tail(s), 10 * acc + (Head(s) - 48))

\* int(text), for text without whitespace or underscores: an optional sign
\* and at least one digit, anything else is a ValueError
ParseInt(s) ==
    LET signed == s # <<>> /\ Head(s) \in {43, Hyphen}
        digits == IF signed THEN Tail(s) ELSE s
    IN IF digits # <<>> /\ \A i \in 1..Len(digits) : IsDigit(digits[i])
       THEN Return(IF signed /\ Head(s) = Hyphen THEN -DigitsValue(digits, 0)
                   ELSE DigitsValue(digits, 0))
       ELSE Raise("ValueError")

\* int(value)
PyInt(v) ==
    CASE v.tag = "int" -> Return(v.val[1])
      [] v.tag = "str" -> ParseInt(v.val)
      [] v.tag = "bytes" -> ParseInt(v.val)
      [] OTHER -> Raise("TypeError")

\* v, decoded with errors='replace' when it is a bytes object
DecodedIfBytes(v) ==
    IF v.tag = "bytes" THEN StrVal(Utf8DecodeReplace(v.val)) ELSE v

get_logger_name(self, fields) ==
    LET domain == DecodedIfBytes(DictGet(fields, "GLIB_DOMAIN", StrVal(<<>>)))
    IN IF domain.tag = "str"
       THEN Return(self.logger_prefix \o Replace(domain.val, Hyphen, Dot)
                   \o self.logger_suffix)
       ELSE Raise("AttributeError")

\* a _get_code_location that reads the path from CODE_FILE, the key
\* _get_fields_basic writes it under
get_code_location_code_file(fields) ==
    Bind(PyInt(DictGet(fields, "CODE_LINE", IntVal(-1))),
         LAMBDA line_no :
             Return([path_name |-> DecodedIfBytes(DictGet(fields, "CODE_FILE", NoneVal)),
                     line_no |-> line_no,
                     func_name |-> DecodedIfBytes(DictGet(fields, "CODE_FUNC", NoneVal))]))

get_code_location(fields) ==
    Bind(PyInt(DictGet(fields, "CODE_LINE", IntVal(-1))),
         LAMBDA line_no :
             Return([path_name |-> DecodedIfBytes(DictGet(fields, "CODE_PATH", NoneVal)),
                     line_no |-> line_no,
                     func_name |-> DecodedIfBytes(DictGet(fields, "CODE_FUNC", NoneVal))]))

\* str(message) for every message, bytes included, with no decoding
get_message_str(fields) == PyStr(DictGet(fields, "MESSAGE", StrVal(<<>>)))

get_message(fields) ==
    LET message == DictGet(fields, "MESSAGE", StrVal(<<>>))
    IN IF message.tag = "bytes" THEN Utf8DecodeReplace(message.val)
       ELSE PyStr(message)

\* the attribute glib_fields of a record: absent, a dict, or something else
NoGlibFields == [kind |-> "absent", items |-> EmptyDict]
GlibFieldsDict(d) == [kind |-> "dict", items |-> d]
GlibFieldsOther == [kind |-> "other", items |-> EmptyDict]

\* the exc_info of a record: None, the triple of an exception, or the triple
\* (None, None, None) that holds no exception
NoExcInfo == [kind |-> "none", type_name |-> <<>>, text |-> <<>>]
ExcInfo(type_name, text) == [kind |-> "exception", type_name |-> type_name, text |-> text]
EmptyExcInfo == [kind |-> "no_exception", type_name |-> <<>>, text |-> <<>>]

\* what logging.LogRecord fills in by itself: the module name it derives from
\* the path, and the current thread
RecordModule == StrVal(<<109>>)
RecordThreadName == StrVal(<<84>>)
RecordThread == IntVal(1)

\* What the record factory makes of its arguments.  The factory is the one
\* installed in logging (logging.getLogRecordFactory()): keeps_extra tells
\* whether it stores the extra keyword glib_fields on the record.
LogRecord(name, level, path_name, line_no, msg, func_name, keeps_extra, fields) ==
    [name |-> name, levelno |-> level, pathname |-> path_name,
     lineno |-> line_no, msg |-> msg, args |-> NoneVal, exc_info |-> NoExcInfo,
     funcName |-> func_name, module |-> RecordModule,
     threadName |-> RecordThreadName, thread |-> RecordThread,
     glib_fields |-> IF keeps_extra THEN GlibFieldsDict(fields) ELSE NoGlibFields]

get_record(self, log_level, fields, keeps_extra) ==
    Bind(get_logger_name(self, fields), LAMBDA logger_name :
    Bind(get_code_location(fields), LAMBDA location :
        Return(LogRecord(logger_name,
                         get_log_level(self, fields, log_level, GetLogLevelDefault),
                         location.path_name, location.line_no, get_message(fields),
                         location.func_name, keeps_extra, fields))))

---------------------------------------------------------------------------
(* glib2python.Logger.logWriterFunc and logHandlerFunc *)

HANDLED == "HANDLED"
UNHANDLED == "UNHANDLED"

\* the classes an "except Exception" clause catches, among those raised here
ExceptionSubclasses ==
    {"ValueError", "TypeError", "AttributeError", "UnicodeDecodeError",
     "RuntimeError"}

\* "except ValueError": a narrower clause
ExceptValueErrorCatches(exc) == exc = "ValueError"

ExceptClauseCatches(exc) == exc \in ExceptionSubclasses

\* The logfields argument: a list of GLib.LogField or an already converted dict
FieldList(l) == [is_dict |-> FALSE, list |-> l, dict |-> EmptyDict]
FieldDict(d) == [is_dict |-> TRUE, list |-> <<>>, dict |-> d]

\* "if isinstance(logfields, dict)": the dict of the fields
NormalizedFields(logfields) ==
    IF logfields.is_dict THEN logfields.dict ELSE fields_to_dict(logfields.list)

\* The try block up to the call of Logger.handle: the call it is about to
\* make, or the exception that ended it before
WriterTryBlock(self, log_level, fields, keeps_extra) ==
    Bind(get_record(self, log_level, fields, keeps_extra), LAMBDA record :
    Bind(get_logger_name(self, fields), LAMBDA logger :
        Return([logger |-> logger, record |-> record])))

\* a writer that calls Logger.handle a second time when the first call raised
HandleTwiceAndReturn(try, handle_raises) ==
    LET exc == IF try.raised THEN try.value ELSE handle_raises
    IN [ret |-> IF exc = "none" THEN HANDLED ELSE UNHANDLED,
        raised |-> "none",
        handle_calls |-> IF try.raised THEN <<>>
                         ELSE IF exc = "none" THEN <<try.value>>
                         ELSE <<try.value, try.value>>]

\* The call of Logger.handle and the end of logWriterFunc.  handle_raises is
\* what Logger.handle (the filters and handlers of the logger) raises, "none"
\* when it returns.  [ret, raised, handle_calls]: the value returned, the
\* exception that left the call ("none" when it returned) and the
\* Logger.handle calls made.
HandleAndReturn(try, handle_raises) ==
    LET exc == IF try.raised THEN try.value ELSE handle_raises
    IN [ret |-> IF exc = "none" THEN HANDLED
                ELSE IF ExceptClauseCatches(exc) THEN UNHANDLED ELSE "none",
        raised |-> IF exc = "none" \/ ExceptClauseCatches(exc) THEN "none" ELSE exc,
        handle_calls |-> IF try.raised THEN <<>> ELSE <<try.value>>]

logWriterFunc(self, log_level, logfields, keeps_extra, handle_raises) ==
    HandleAndReturn(WriterTryBlock(self, log_level, NormalizedFields(logfields),
                                   keeps_extra),
                    handle_raises)

\* the fields logHandlerFunc builds
HandlerFuncFields(log_domain, message) ==
    DictSet(DictSet(EmptyDict, "MESSAGE", message), "GLIB_DOMAIN", log_domain)

\* logHandlerFunc returns nothing: what it reports is what its one call of
\* logWriterFunc did
logHandlerFunc(self, log_domain, log_level, message, keeps_extra, handle_raises) ==
    logWriterFunc(self, log_level, FieldDict(HandlerFuncFields(log_domain, message)),
                  keeps_extra, handle_raises)

---------------------------------------------------------------------------
(* python2glib.LoggerHandler: from the record to the fields *)

\* a handler object: its class and the attributes set by its constructor
Handler(class, replace_module_char, log_domain_prefix, log_domain_suffix) ==
    [class |-> class, replace_module_char |-> replace_module_char,
     log_domain_prefix |-> log_domain_prefix,
     log_domain_suffix |-> log_domain_suffix, user_data |-> NoneVal]

\* GLibWriterHandler(writer, user_data) and GLibLogHandler(writer, user_data):
\* the user data to pass to the function
HandlerWithUserData(h, user_data) == [h EXCEPT !.user_data = user_data]

\* str.replace(a, t, 1): the first character a only
RECURSIVE ReplaceFirstText(_, _, _)
ReplaceFirstText(s, a, t) ==
    IF s = <<>> THEN <<>>
    ELSE IF Head(s) = a THEN t \o Tail(s)
    ELSE <<Head(s)>> \o ReplaceFirstText(Tail(s), a, t)

\* str.replace(a, t): every character a replaced by the text t
RECURSIVE ReplaceText(_, _, _)
ReplaceText(s, a, t) ==
    IF s = <<>> THEN <<>>
    ELSE (IF Head(s) = a THEN t ELSE <<Head(s)>>) \o ReplaceText(Tail(s), a, t)

\* the logger name taken as it is: no character replaced
get_log_domain_unreplaced(h, rec) ==
    h.log_domain_prefix \o rec.name \o h.log_domain_suffix

get_log_domain(h, rec) ==
    h.log_domain_prefix \o ReplaceText(rec.name, Dot, h.replace_module_char)
        \o h.log_domain_suffix

\* msg % args for one text argument: the first "%s" replaced by it
RECURSIVE PercentFormat(_, _)
PercentFormat(msg, arg) ==
    IF Len(msg) < 2 THEN msg
    ELSE IF msg[1] = 37 /\ msg[2] = 115 THEN arg \o Tail(Tail(msg))
    ELSE <<msg[1]>> \o PercentFormat(Tail(msg), arg)

\* record.getMessage()
getMessage(rec) ==
    IF rec.args = NoneVal THEN rec.msg ELSE PercentFormat(rec.msg, PyStr(rec.args))

\* the text logging.Formatter appends for an exc_info: a line break and the
\* last line of the traceback, "type: text"
ExcText(exc_info) ==
    <<10>> \o (IF exc_info.kind = "exception"
               THEN exc_info.type_name \o <<58, 32>> \o exc_info.text
               ELSE <<78, 111, 110, 101, 84, 121, 112, 101, 58, 32, 78, 111, 110, 101>>)

\* logging.Formatter.format stores the message on the record:
\* "record.message = record.getMessage()"
FormatterFormat(rec) == [message |-> getMessage(rec)] @@ rec

\* self.format(record) with the default formatter
format(rec) ==
    IF rec.exc_info.kind = "none" THEN getMessage(rec)
    ELSE getMessage(rec) \o ExcText(rec.exc_info)

get_fields_basic(rec, fields) ==
    LET f1 == DictSet(fields, "MESSAGE", StrVal(format(rec)))
        f2 == DictSet(f1, "CODE_FUNC", rec.funcName)
        f3 == DictSet(f2, "CODE_FILE", rec.pathname)
    IN DictSet(f3, "CODE_LINE", IntVal(rec.lineno))

get_fields_metadata(rec, fields) ==
    LET f1 == DictSet(fields, "PYTHON_MESSAGE", StrVal(getMessage(rec)))
        f2 == DictSet(f1, "PYTHON_MODULE", rec.module)
        f3 == DictSet(f2, "PYTHON_LOGGER", StrVal(rec.name))
        f4 == DictSet(f3, "PYTHON_TNAME", rec.threadName)
    IN DictSet(f4, "PYTHON_TID", rec.thread)

\* "builtins.NoneType" and "None": type(None) and str(None)
NoneTypeName ==
    <<98, 117, 105, 108, 116, 105, 110, 115, 46, 78, 111, 110, 101, 84, 121, 112, 101>>
NoneText == <<78, 111, 110, 101>>

get_fields_exception(rec, fields) ==
    IF rec.exc_info.kind # "none"
    THEN LET type_name == IF rec.exc_info.kind = "exception"
                          THEN rec.exc_info.type_name ELSE NoneTypeName
             text == IF rec.exc_info.kind = "exception"
                     THEN rec.exc_info.text ELSE NoneText
         IN DictSet(DictSet(fields, "PYTHON_EXC", StrVal(type_name)),
                    "PYTHON_EXC_MESSAGE", StrVal(text))
    ELSE fields

get_fields_record(rec, fields) ==
    IF rec.glib_fields.kind = "dict"
    THEN DictUpdate(fields, rec.glib_fields.items)
    ELSE fields

\* the fields computed from the record itself, before glib_fields is merged
get_fields_computed(rec) ==
    get_fields_exception(rec,
        get_fields_metadata(rec, get_fields_basic(rec, EmptyDict)))

\* LoggerHandler._get_fields
get_fields(rec, update_from_record) ==
    IF update_from_record THEN get_fields_record(rec, get_fields_computed(rec))
    ELSE get_fields_computed(rec)

\* GLibWriterHandler._get_fields
writer_get_fields(h, rec, update_from_record) ==
    With(get_fields(rec, update_from_record), LAMBDA fields :
        IF ~DictHas(fields, "GLIB_DOMAIN")
        THEN DictSet(fields, "GLIB_DOMAIN", StrVal(get_log_domain(h, rec)))
        ELSE fields)

\* self._get_fields(record), as the class of the handler defines it
handler_get_fields(h, rec) ==
    IF h.class = "GLibWriterHandler" THEN writer_get_fields(h, rec, TRUE)
    ELSE get_fields(rec, TRUE)

---------------------------------------------------------------------------
(* python2glib.LoggerHandler._convert_fields_dict and emit,                *)
(* python2glib.GLibWriterHandler.emit                                      *)

\* GLib.Variant('s', s): GLib holds the text as a C string, which ends at
\* the first NUL
VariantString(s) ==
    LET i == IndexOf(s, NUL)
    IN [tag |-> "variant_s", val |-> IF i = 0 THEN s ELSE SubSeq(s, 1, i - 1)]

\* GLib.Variant('ay', b)
VariantBytes(b) == [tag |-> "variant_ay", val |-> b]

IsVariant(v) == v.tag \in {"variant_s", "variant_ay"}

\* a pass of the loop without the branch for bytes
ConvertValueAllText(v) ==
    IF IsVariant(v) THEN v ELSE VariantString(PyStr(v))

\* one pass of the loop: the value stored back under the key
ConvertValue(v) ==
    IF IsVariant(v) THEN v
    ELSE IF v.tag = "bytes" THEN VariantBytes(v.val)
    ELSE VariantString(PyStr(v))

\* a pass of the loop without the test for '\x00'
WarnsNever(v) == FALSE

\* whether the pass over this value calls logger.warn
WarnsOfNul(v) ==
    ~IsVariant(v) /\ v.tag # "bytes" /\ IndexOf(PyStr(v), NUL) # 0

\* [fields, warnings]: the dict after the loop and the logger.warn calls made
convert_fields_dict(fields) ==
    [fields |-> [k \in DOMAIN fields |-> ConvertValue(fields[k])],
     warnings |-> Cardinality({k \in DOMAIN fields : WarnsOfNul(fields[k])})]

\* LoggerHandler.emit: the GLib.log_variant call and the diagnostics logged
emit(h, rec) ==
    With(handler_get_fields(h, rec), LAMBDA fields_dict :
    With(convert_fields_dict(fields_dict), LAMBDA converted :
        [native |-> <<[func |-> "log_variant", log_domain |-> get_log_domain(h, rec),
                       log_level |-> level_to_glib(rec.levelno, LevelToGlibDefault),
                       fields |-> converted.fields]>>,
         fields_dict |-> fields_dict,
         errors |-> IF ~DictHas(fields_dict, "MESSAGE") THEN 1 ELSE 0,
         warnings |-> converted.warnings,
         ret |-> NoneVal]))

\* GLibWriterHandler.emit: the call of self.writer, whose result is returned
writer_emit(h, rec, writer_result) ==
    With(handler_get_fields(h, rec), LAMBDA fields_dict :
        [native |-> <<[func |-> "writer", log_domain |-> <<>>,
                       log_level |-> level_to_glib(rec.levelno, LevelToGlibDefault),
                       fields |-> convert_fields(fields_dict),
                       user_data |-> h.user_data]>>,
         fields_dict |-> fields_dict,
         errors |-> 0,
         warnings |-> 0,
         ret |-> writer_result])

---------------------------------------------------------------------------
(* The dict objects of a call of emit.  _convert_fields_dict and           *)
(* GLibWriterHandler._get_fields store into the dict they are given; what  *)
(* that does to the record depends on which object the dict is.            *)

\* the dict "fields = {}" that _get_fields creates, and the dict the record
\* holds as glib_fields
NewDict == "fields"
RecordDict == "record.glib_fields"

\* a _get_fields_record that takes the dict of the record as the fields
\* ("fields = record.glib_fields") where the code copies its entries
get_fields_object_of_record(rec, update_from_record) ==
    IF update_from_record /\ rec.glib_fields.kind = "dict" THEN RecordDict
    ELSE NewDict

\* the dict object _get_fields returns: the one it created, into which
\* fields.update has copied the entries of glib_fields
get_fields_object(rec, update_from_record) == NewDict

\* the record after a handler has left the dict object obj with the entries
\* written
RecordAfterWrites(rec, obj, written) ==
    IF obj = RecordDict
    THEN [rec EXCEPT !.glib_fields = GlibFieldsDict(written)]
    ELSE rec

---------------------------------------------------------------------------
(* python2glib.GLibLogHandler *)

\* GLibLogHandler._get_message: "return record.message", an attribute a
\* record has once logging.Formatter.format has stored it
log_get_message(rec) ==
    IF "message" \in DOMAIN rec THEN Return(rec.message)
    ELSE Raise("AttributeError")

\* the call of self.handler with the message m
LogHandlerCall(h, rec, m) ==
    [func |-> "handler", log_domain |-> get_log_domain(h, rec),
     log_level |-> level_to_glib(rec.levelno, LevelToGlibDefault),
     message |-> m, user_data |-> h.user_data]

\* GLibLogHandler.emit: the call of self.handler, or the exception that ends
\* emit before it
log_emit(h, rec) ==
    With(log_get_message(rec), LAMBDA m :
        [native |-> IF m.raised THEN <<>> ELSE <<LogHandlerCall(h, rec, m.value)>>,
         raised |-> IF m.raised THEN m.value ELSE "none",
         ret |-> NoneVal])

---------------------------------------------------------------------------
(* The inputs of the running bridge *)

TextHi == <<104, 105>>
TextAB == <<97, Hyphen, 98>>
TextDiskIo == <<100, 105, 115, 107, Hyphen, 105, 111>>
TextApp == <<97, 112, 112>>
Text12 == <<49, 50>>
TextX == <<120>>
Text3 == <<51>>
TextPrefix == <<112, Dot>>
TextSuffix == <<Dot, 115>>

\* the LogField GLib passes for a text: length -1 and a NUL-terminated buffer
TextField(k, t) == LogField(k, -1, 1, StringBuffer(Utf8Encode(t)))

Dict1(k1, v1) == DictSet(EmptyDict, k1, v1)
Dict2(k1, v1, k2, v2) == DictSet(Dict1(k1, v1), k2, v2)
Dict3(k1, v1, k2, v2, k3, v3) == DictSet(Dict2(k1, v1, k2, v2), k3, v3)

\* the Logger objects a run may be constructed with
Loggers == {Logger(<<>>, <<>>, FALSE), Logger(TextPrefix, TextSuffix, TRUE)}

SampleFieldLists ==
    {<<>>,
     <<TextField("MESSAGE", TextHi), TextField("GLIB_DOMAIN", TextDiskIo),
       TextField("CODE_LINE", Text12)>>,
     <<TextField("MESSAGE", TextHi), TextField("CODE_LINE", TextX)>>,
     <<LogField("MESSAGE", -1, 1, <<255, NUL>>), TextField("PRIORITY", Text3)>>,
     <<LogField("MESSAGE", 2, 1, <<104, NUL>>),
       LogField("GLIB_DOMAIN", -1, NULL, <<>>)>>}

SampleFieldDicts ==
    {Dict2("MESSAGE", StrVal(TextHi), "GLIB_DOMAIN", BytesVal(TextAB)),
     Dict2("MESSAGE", StrVal(TextHi), "GLIB_DOMAIN", IntVal(7)),
     Dict2("MESSAGE", IntVal(42), "CODE_LINE", NoneVal),
     Dict3("PYTHON_LOGGER", StrVal(TextX), "MESSAGE", StrVal(TextHi),
           "CODE_LINE", IntVal(12))}

\* the calls GLib makes: every list with one level, every dict with another
SampleWriterCalls ==
    {[log_level |-> LEVEL_WARNING, logfields |-> FieldList(l)] : l \in SampleFieldLists}
    \cup {[log_level |-> LEVEL_DEBUG + FLAG_FATAL, logfields |-> FieldDict(d)] :
              d \in SampleFieldDicts}

\* what Logger.handle may raise: nothing, or the error of a filter or handler
HandleOutcomes == {"none", "RuntimeError"}

\* the handler objects attached to loggers
Handlers ==
    {Handler("LoggerHandler", <<Hyphen>>, <<>>, <<>>),
     Handler("LoggerHandler", <<95>>, TextPrefix, TextSuffix),
     Handler("GLibWriterHandler", <<Hyphen>>, <<>>, <<>>)}

\* a record made by the application's own logging call
AppRecord(name, level, msg, args, exc_info, glib_fields) ==
    [name |-> name, levelno |-> level, pathname |-> StrVal(TextX),
     lineno |-> 12, msg |-> msg, args |-> args, exc_info |-> exc_info,
     funcName |-> StrVal(TextHi), module |-> RecordModule,
     threadName |-> RecordThreadName, thread |-> RecordThread,
     glib_fields |-> glib_fields]

SampleAppRecords ==
    {AppRecord(<<97, Dot, 98>>, ERROR, <<104, 37, 115>>, StrVal(TextX), NoExcInfo,
               NoGlibFields),
     AppRecord(TextApp, DEBUG, TextHi, NoneVal, ExcInfo(TextX, TextHi),
               GlibFieldsDict(Dict3("MESSAGE", BytesVal(<<255>>),
                                    "PYTHON_TID", StrVal(Text3),
                                    "GLIB_DOMAIN", StrVal(TextDiskIo)))),
     AppRecord(TextApp, INFO, TextHi, NoneVal, EmptyExcInfo, GlibFieldsOther)}

---------------------------------------------------------------------------
(* The running bridge *)

Self == Logger(logger_prefix, logger_suffix, use_priority_field)

Init ==
    /\ \E l \in Loggers :
          /\ logger_prefix = l.logger_prefix
          /\ logger_suffix = l.logger_suffix
          /\ use_priority_field = l.use_priority_field
    /\ pc = "init"
    /\ call = <<>>
    /\ ret = NoneVal
    /\ raised = "none"
    /\ dispatched = <<>>
    /\ native = <<>>
    /\ nInvoke = 0
    /\ nHandle = 0
    /\ nHandled = 0
    /\ nUnhandled = 0
    /\ nHandleRaised = 0

\* the counters after an invocation of logWriterFunc that did r, with a
\* Logger.handle that raises handle_raises when it is called
Counted(r, handle_raises) ==
    /\ nHandleRaised' = nHandleRaised
           + (IF r.handle_calls # <<>> /\ handle_raises # "none" THEN 1 ELSE 0)
    /\ nInvoke' = nInvoke + 1
    /\ nHandle' = nHandle + Len(r.handle_calls)
    /\ nHandled' = nHandled + (IF r.ret = HANDLED THEN 1 ELSE 0)
    /\ nUnhandled' = nUnhandled + (IF r.ret = UNHANDLED THEN 1 ELSE 0)

\* GLib calls the log writer function
LogWriterFunc ==
    \E c \in SampleWriterCalls, keeps_extra \in BOOLEAN,
       handle_raises \in HandleOutcomes :
        \E r \in {logWriterFunc(Self, c.log_level, c.logfields, keeps_extra,
                               handle_raises)} :
           /\ nInvoke < MaxInvoke
           /\ pc' = "logWriterFunc"
           /\ call' = [log_level |-> c.log_level, logfields |-> c.logfields,
                       keeps_extra |-> keeps_extra, handle_raises |-> handle_raises]
           /\ ret' = r.ret
           /\ raised' = r.raised
           /\ dispatched' = r.handle_calls
           /\ native' = <<>>
           /\ Counted(r, handle_raises)
           /\ UNCHANGED <<logger_prefix, logger_suffix, use_priority_field>>

\* GLib calls the old-style log handler function
LogHandlerFunc ==
    \E log_level \in {LEVEL_INFO}, log_domain \in {StrVal(TextDiskIo), NoneVal},
       message \in {StrVal(TextHi)},
       keeps_extra \in BOOLEAN, handle_raises \in HandleOutcomes :
        \E r \in {logHandlerFunc(Self, log_domain, log_level, message, keeps_extra,
                                handle_raises)} :
           /\ nInvoke < MaxInvoke
           /\ pc' = "logHandlerFunc"
           /\ call' = [log_level |-> log_level,
                       logfields |-> FieldDict(HandlerFuncFields(log_domain, message)),
                       keeps_extra |-> keeps_extra, handle_raises |-> handle_raises]
           /\ ret' = NoneVal
           /\ raised' = r.raised
           /\ dispatched' = r.handle_calls
           /\ native' = <<>>
           /\ Counted(r, handle_raises)
           /\ UNCHANGED <<logger_prefix, logger_suffix, use_priority_field>>

\* the records a handler may be given: one the bridge has just dispatched to
\* a logger, or one of the application
EmitRecords == {dispatched[i].record : i \in 1..Len(dispatched)} \cup SampleAppRecords

\* logging hands a record to a LoggerHandler
Emit ==
    \E h \in {x \in Handlers : x.class = "LoggerHandler"}, rec \in EmitRecords :
        \E r \in {emit(h, rec)} :
           /\ pc' = "emit"
           /\ call' = [handler |-> h, record |-> rec, fields_dict |-> r.fields_dict,
                       errors |-> r.errors, warnings |-> r.warnings]
           /\ ret' = r.ret
           /\ raised' = "none"
           /\ native' = r.native
           /\ dispatched' = <<>>
           /\ UNCHANGED <<logger_prefix, logger_suffix, use_priority_field,
                          nInvoke, nHandle, nHandled, nUnhandled, nHandleRaised>>

\* logging hands a record to a GLibWriterHandler
WriterEmit ==
    \E h \in {x \in Handlers : x.class = "GLibWriterHandler"}, rec \in EmitRecords,
       writer_result \in {HANDLED, UNHANDLED} :
        \E r \in {writer_emit(h, rec, writer_result)} :
           /\ pc' = "writer_emit"
           /\ call' = [handler |-> h, record |-> rec, fields_dict |-> r.fields_dict,
                       errors |-> r.errors, warnings |-> r.warnings]
           /\ ret' = r.ret
           /\ raised' = "none"
           /\ native' = r.native
           /\ dispatched' = <<>>
           /\ UNCHANGED <<logger_prefix, logger_suffix, use_priority_field,
                          nInvoke, nHandle, nHandled, nUnhandled, nHandleRaised>>

Next == LogWriterFunc \/ LogHandlerFunc \/ Emit \/ WriterEmit

Spec == Init /\ [][Next]_vars
---------------------------------------------------------------------------
(* Properties of the running bridge *)

\* the last operation was an invocation of the writer, direct or through
\* logHandlerFunc
Invoked == pc \in {"logWriterFunc", "logHandlerFunc"}

\* the dict of the fields of the last invocation
CallFields == NormalizedFields(call.logfields)

\* the texts int() accepts: an optional sign and at least one digit
IsIntegerText(s) ==
    LET digits == IF s # <<>> /\ s[1] \in {43, Hyphen} THEN Tail(s) ELSE s
    IN digits # <<>> /\ \A i \in 1..Len(digits) : digits[i] \in 48..57

\* CODE_LINE is there and is not an integer
CodeLineNotInteger(fields) ==
    /\ "CODE_LINE" \in DOMAIN fields
    /\ \/ fields["CODE_LINE"].tag = "none"
       \/ /\ fields["CODE_LINE"].tag \in {"str", "bytes"}
          /\ ~IsIntegerText(fields["CODE_LINE"].val)

\* GLIB_DOMAIN is there and is neither text nor bytes
DomainNotText(fields) ==
    /\ "GLIB_DOMAIN" \in DOMAIN fields
    /\ fields["GLIB_DOMAIN"].tag \notin {"str", "bytes"}

\* the translation of these fields into a record and a logger fails
TranslationFails(fields) == CodeLineNotInteger(fields) \/ DomainNotText(fields)

\* C2: whatever fails while logWriterFunc normalizes the fields, builds the
\* record or dispatches it is caught inside the writer: no exception leaves
\* the call, the call returns UNHANDLED (so with a CODE_LINE that is not an
\* integer), and it returns HANDLED exactly when no step failed.
C2_FailuresAreCaught ==
    /\ Invoked => raised = "none"
    /\ pc = "logWriterFunc" =>
          /\ ret \in {HANDLED, UNHANDLED}
          /\ ret = HANDLED <=>
                 ~TranslationFails(CallFields) /\ call.handle_raises = "none"
          /\ CodeLineNotInteger(CallFields) => ret = UNHANDLED

\* a CODE_LINE of "x" made the writer return UNHANDLED, with a Logger.handle
\* that would not have raised
C2_Witness ==
    /\ pc = "logWriterFunc"
    /\ call.handle_raises = "none"
    /\ "CODE_LINE" \in DOMAIN CallFields
    /\ CallFields["CODE_LINE"] = StrVal(TextX)
    /\ ret = UNHANDLED
    /\ raised = "none"

\* C3, as it is stated: an invocation dispatches once when it succeeds and
\* not at all when it fails, so the calls of Logger.handle are as many as the
\* HANDLED results.
C3_DispatchesEqualHandled ==
    /\ Invoked => Len(dispatched) <= 1
    /\ nHandle = nHandled

\* C3: an invocation calls Logger.handle at most once: exactly once when the
\* translation of the fields succeeds, not at all when it fails.  A call of
\* Logger.handle that raises has been made and ends in UNHANDLED, so the
\* calls of Logger.handle are as many as the HANDLED results and the
\* invocations whose call raised together.
C3_AtMostOneDispatch ==
    /\ Invoked =>
          /\ Len(dispatched) <= 1
          /\ Len(dispatched) = 1 <=> ~TranslationFails(CallFields)
    /\ nHandle = nHandled + nHandleRaised
    /\ nInvoke = nHandled + nUnhandled
    /\ nHandle <= nInvoke

\* two invocations, both dispatched, one of them with a Logger.handle that
\* raised
C3_Witness ==
    /\ Invoked
    /\ nInvoke = 2
    /\ nHandle = 2
    /\ nHandled = 1
    /\ nHandleRaised = 1
    /\ Len(dispatched) = 1

---------------------------------------------------------------------------
(* The functions of the bridge applied on their own: the initial state     *)
(* holds the arguments in call, the one step applies the function          *)

\* no operation has run
NoCalls ==
    /\ pc = "init"
    /\ ret = NoneVal
    /\ raised = "none"
    /\ dispatched = <<>>
    /\ native = <<>>
    /\ nInvoke = 0
    /\ nHandle = 0
    /\ nHandled = 0
    /\ nUnhandled = 0
    /\ nHandleRaised = 0

\* the Logger object is one of Loggers
LoggerConstructed ==
    \E l \in Loggers :
        /\ logger_prefix = l.logger_prefix
        /\ logger_suffix = l.logger_suffix
        /\ use_priority_field = l.use_priority_field

\* what applying a function leaves alone
Untouched ==
    UNCHANGED <<logger_prefix, logger_suffix, use_priority_field, call, raised,
                dispatched, nInvoke, nHandle, nHandled, nUnhandled, nHandleRaised>>

---------------------------------------------------------------------------
(* LoggerHandler._level_to_glib on every level *)

\* levels below zero drawn as an input
LevelsBelowZero == 5
\* highest level drawn as an input
MaxLevel == 60

Levels == (0 - LevelsBelowZero)..MaxLevel

InitLevelToGlib ==
    /\ NoCalls
    /\ LoggerConstructed
    /\ \E level \in Levels : call = [level |-> level]

LevelToGlib ==
    /\ pc = "init"
    /\ pc' = "level_to_glib"
    /\ ret' = level_to_glib(call.level, LevelToGlibDefault)
    /\ native' = native
    /\ Untouched

SpecLevelToGlib == InitLevelToGlib /\ [][LevelToGlib]_vars

\* C1: for every Python level, negative ones, zero and those above CRITICAL
\* included, _level_to_glib with its default returns LEVEL_WARNING,
\* LEVEL_INFO or LEVEL_DEBUG, never LEVEL_ERROR or LEVEL_CRITICAL.
C1_NeverErrorOrCritical ==
    pc = "level_to_glib" =>
        /\ ret \in {LEVEL_WARNING, LEVEL_INFO, LEVEL_DEBUG}
        /\ ret \notin {LEVEL_ERROR, LEVEL_CRITICAL}

\* CRITICAL went out as LEVEL_WARNING
C1_Witness == pc = "level_to_glib" /\ call.level = CRITICAL /\ ret = LEVEL_WARNING

\* the step function of the thresholds 30, 20 and 10
StepFunction(level) ==
    IF level >= 30 THEN LEVEL_WARNING
    ELSE IF level >= 20 THEN LEVEL_INFO
    ELSE IF level >= 10 THEN LEVEL_DEBUG
    ELSE LEVEL_DEBUG

\* of two GLib levels the one with the lower flag is the more severe
NotMoreSevere(a, b) == a >= b

\* C6: _level_to_glib is the step function of the descending thresholds
\* (from 30 on LEVEL_WARNING, from 20 on LEVEL_INFO, from 10 on LEVEL_DEBUG,
\* below 10 the default LEVEL_DEBUG), and so it is monotonic: the result for
\* a lower level is never more severe than the result for a higher one.
C6_StepFunction ==
    pc = "level_to_glib" =>
        /\ ret = StepFunction(call.level)
        /\ \A higher \in Levels :
               call.level < higher =>
                   NotMoreSevere(ret, level_to_glib(higher, LevelToGlibDefault))

\* a level between two thresholds went out as the lower one
C6_Witness == pc = "level_to_glib" /\ call.level = 25 /\ ret = LEVEL_INFO

---------------------------------------------------------------------------
(* Logger._get_log_level on every GLib level and PRIORITY field *)

\* highest GLib log level drawn as an input: every level and flag bit, and a
\* bit above them
MaxLogLevel == 259

\* the PRIORITY values drawn: the digits, other texts, and values of other
\* types
PriorityValues ==
    {StrVal(<<48 + i>>) : i \in 0..9}
    \cup {StrVal(<<>>), StrVal(<<49, 48>>), BytesVal(<<51>>), IntVal(3), NoneVal}

PriorityFields == {EmptyDict} \cup {Dict1("PRIORITY", v) : v \in PriorityValues}

InitGetLogLevel ==
    /\ NoCalls
    /\ LoggerConstructed
    /\ \E log_level \in 0..MaxLogLevel, fields \in PriorityFields :
           call = [log_level |-> log_level, fields |-> fields]

GetLogLevel ==
    /\ pc = "init"
    /\ pc' = "get_log_level"
    /\ ret' = get_log_level(Self, call.fields, call.log_level, GetLogLevelDefault)
    /\ native' = native
    /\ Untouched

SpecGetLogLevel == InitGetLogLevel /\ [][GetLogLevel]_vars

\* the bit of a flag is set in x
HasBit(x, flag) == (x \div flag) % 2 = 1

\* the Python level of the first level bit set, in the order Error, Critical,
\* Warning, Message, Info, Debug; INFO when none is set
FirstLevelBit(log_level) ==
    IF HasBit(log_level, LEVEL_ERROR) THEN ERROR
    ELSE IF HasBit(log_level, LEVEL_CRITICAL) THEN CRITICAL
    ELSE IF HasBit(log_level, LEVEL_WARNING) THEN WARNING
    ELSE IF HasBit(log_level, LEVEL_MESSAGE) THEN INFO
    ELSE IF HasBit(log_level, LEVEL_INFO) THEN INFO
    ELSE IF HasBit(log_level, LEVEL_DEBUG) THEN DEBUG
    ELSE INFO

\* C7: when the priority field is not used, _get_log_level returns the
\* Python level of the first level bit set in the GLib level, in the order
\* Error, Critical, Warning, Message, Info, Debug (Message and Info both
\* give INFO), whatever the fatal and recursion flags are, and the default
\* INFO when no level bit is set.
C7_FirstLevelBit ==
    pc = "get_log_level" /\ ~use_priority_field =>
        /\ ret = FirstLevelBit(call.log_level)
        /\ ret = FirstLevelBit(call.log_level - (call.log_level % 4))

\* Critical, Debug and the fatal flag together gave CRITICAL
C7_Witness ==
    /\ pc = "get_log_level"
    /\ ~use_priority_field
    /\ call.log_level = LEVEL_CRITICAL + LEVEL_DEBUG + FLAG_FATAL
    /\ ret = CRITICAL

\* the table of the journald priorities
PriorityTable ==
    (<<48>> :> CRITICAL) @@ (<<49>> :> WARNING) @@ (<<50>> :> CRITICAL)
    @@ (<<51>> :> ERROR) @@ (<<52>> :> CRITICAL) @@ (<<53>> :> INFO)
    @@ (<<54>> :> INFO) @@ (<<55>> :> DEBUG)

\* the fields hold PRIORITY with one of the texts "0" to "7"
RecognizedPriority(fields) ==
    /\ "PRIORITY" \in DOMAIN fields
    /\ fields["PRIORITY"].tag = "str"
    /\ fields["PRIORITY"].val \in {<<48 + i>> : i \in 0..7}

\* C8: with use_priority_field and a PRIORITY of one of the texts "0" to
\* "7" the level is that of the table, whatever the GLib level is; without
\* use_priority_field, or with PRIORITY absent or not one of these texts,
\* the level is that of the scan of the GLib level.
C8_PriorityTable ==
    pc = "get_log_level" =>
        ret = IF use_priority_field /\ RecognizedPriority(call.fields)
              THEN PriorityTable[call.fields["PRIORITY"].val]
              ELSE FirstLevelBit(call.log_level)

\* PRIORITY "3" gave ERROR for a message GLib passed as a debug message
C8_Witness ==
    /\ pc = "get_log_level"
    /\ use_priority_field
    /\ call.log_level = LEVEL_DEBUG
    /\ call.fields = Dict1("PRIORITY", StrVal(Text3))
    /\ ret = ERROR

---------------------------------------------------------------------------
(* The codec: GLibWriterHandler._convert_fields, then                      *)
(* Logger._fields_to_dict on what it made                                  *)

\* the code points of the texts drawn: NUL, "a" and e with an acute accent,
\* whose UTF-8 form is the two bytes 195 169
TextAlphabet == {NUL, 97, 233}

\* the bytes drawn: NUL, "a", a two byte sequence of UTF-8 and its parts, and
\* a byte no UTF-8 text holds
ByteAlphabet == {NUL, 97, 195, 169, 255}

CodecValues ==
    {StrVal(t) : t \in SeqsUpTo(TextAlphabet, MaxTextLen)}
    \cup {BytesVal(b) : b \in SeqsUpTo(ByteAlphabet, MaxBytesLen)}

\* the field maps drawn: none, one or two fields
CodecFieldMaps ==
    {EmptyDict}
    \cup {Dict1("MESSAGE", v) : v \in CodecValues}
    \cup {Dict2("MESSAGE", v, "GLIB_DOMAIN", w) : v \in CodecValues, w \in CodecValues}

InitCodec ==
    /\ NoCalls
    /\ LoggerConstructed
    /\ \E fields \in CodecFieldMaps : call = [fields |-> fields]

\* the fields encoded by _convert_fields (kept in native) and decoded again
\* by _fields_to_dict
CodecRoundTrip ==
    /\ pc = "init"
    /\ pc' = "codec"
    /\ \E logfields \in {convert_fields(call.fields)} :
           /\ native' = logfields
           /\ ret' = fields_to_dict(logfields)
    /\ Untouched

SpecCodec == InitCodec /\ [][CodecRoundTrip]_vars

\* C4, as it is stated: every field map of texts and bytes, texts with NUL
\* included, comes back from the round trip with the same keys, the same
\* text for every text and the same bytes for every bytes value.
C4_RoundTripOfEveryText == pc = "codec" => ret = call.fields

\* the part of a text before its first NUL, the whole text when it has none
BeforeNul(t) ==
    LET n == CHOOSE n \in 0..Len(t) :
                 /\ \A i \in 1..n : t[i] # NUL
                 /\ n = Len(t) \/ t[n + 1] = NUL
    IN SubSeq(t, 1, n)

\* C4: the round trip gives the same keys, the same bytes for every bytes
\* value (NUL bytes and the empty value included) and the same text for
\* every text without NUL (the empty text included); a text with a NUL
\* comes back cut before its first NUL.
C4_RoundTripUpToNul ==
    pc = "codec" =>
        /\ DOMAIN ret = DOMAIN call.fields
        /\ \A k \in DOMAIN call.fields :
               ret[k] = IF call.fields[k].tag = "str"
                        THEN StrVal(BeforeNul(call.fields[k].val))
                        ELSE call.fields[k]

\* a text and a bytes value, both with a NUL, went through the codec: the
\* text came back cut, the bytes whole
C4_Witness ==
    /\ pc = "codec"
    /\ call.fields = Dict2("MESSAGE", StrVal(<<97, NUL>>),
                           "GLIB_DOMAIN", BytesVal(<<NUL, 255>>))
    /\ Len(native) = 2
    /\ ret = Dict2("MESSAGE", StrVal(<<97>>), "GLIB_DOMAIN", BytesVal(<<NUL, 255>>))

---------------------------------------------------------------------------
(* logWriterFunc on every GLIB_DOMAIN and MESSAGE                          *)

\* longest GLIB_DOMAIN text drawn as an input
MaxDomainLen == 3

\* the GLIB_DOMAIN values drawn: texts of "a" and "-", the text "disk-io",
\* and bytes, valid UTF-8 and not
DomainValues ==
    {StrVal(t) : t \in SeqsUpTo({97, Hyphen}, MaxDomainLen)}
    \cup {StrVal(TextDiskIo), BytesVal(TextAB), BytesVal(<<Hyphen, 255>>)}

\* the MESSAGE values drawn: texts without NUL, and bytes, valid UTF-8 and not
MessageValues ==
    {StrVal(t) : t \in SeqsUpTo({104, 233}, MaxTextLen)}
    \cup {BytesVal(b) : b \in SeqsUpTo({97, 195, 169}, MaxBytesLen)}

\* the field maps drawn: each field there or not
IngressFieldMaps ==
    {EmptyDict}
    \cup {Dict1("GLIB_DOMAIN", d) : d \in DomainValues}
    \cup {Dict1("MESSAGE", m) : m \in MessageValues}
    \cup {Dict2("GLIB_DOMAIN", d, "MESSAGE", m) : d \in DomainValues, m \in MessageValues}

\* GLib passes the fields as a list of LogField, a direct caller as a dict
InitIngress ==
    /\ NoCalls
    /\ LoggerConstructed
    /\ \E fields \in IngressFieldMaps, as_list \in BOOLEAN :
           call = [log_level |-> LEVEL_MESSAGE, fields |-> fields,
                   logfields |-> IF as_list THEN FieldList(convert_fields(fields))
                                 ELSE FieldDict(fields),
                   keeps_extra |-> FALSE, handle_raises |-> "none"]

\* logWriterFunc on these arguments, with a Logger.handle that returns
IngressWriter ==
    /\ pc = "init"
    /\ pc' = "logWriterFunc"
    /\ \E r \in {logWriterFunc(Self, call.log_level, call.logfields,
                              call.keeps_extra, call.handle_raises)} :
           /\ ret' = r.ret
           /\ raised' = r.raised
           /\ dispatched' = r.handle_calls
           /\ nInvoke' = nInvoke + 1
           /\ nHandle' = nHandle + Len(r.handle_calls)
           /\ nHandled' = nHandled + (IF r.ret = HANDLED THEN 1 ELSE 0)
           /\ nUnhandled' = nUnhandled + (IF r.ret = UNHANDLED THEN 1 ELSE 0)
    /\ UNCHANGED <<logger_prefix, logger_suffix, use_priority_field, call, native,
                   nHandleRaised>>

SpecIngress == InitIngress /\ [][IngressWriter]_vars

\* the text of a field: the empty text when the field is absent, the text
\* itself, or the bytes decoded
FieldText(fields, key) ==
    IF key \notin DOMAIN fields THEN <<>>
    ELSE IF fields[key].tag = "bytes" THEN Utf8DecodeReplace(fields[key].val)
    ELSE fields[key].val

\* every hyphen of the text turned into a dot
HyphensToDots(t) == [i \in 1..Len(t) |-> IF t[i] = 45 THEN 46 ELSE t[i]]

\* C9: the logger name is the prefix, the GLIB_DOMAIN field with every hyphen
\* replaced by a dot (the empty text when the field is absent), and the
\* suffix; the record is dispatched to the logger of that name and to no
\* other, and carries that name.
C9_LoggerName ==
    pc = "logWriterFunc" =>
        /\ Len(dispatched) = 1
        /\ dispatched[1].logger =
               logger_prefix \o HyphensToDots(FieldText(call.fields, "GLIB_DOMAIN"))
                   \o logger_suffix
        /\ dispatched[1].record.name = dispatched[1].logger

\* the domain "disk-io", passed by GLib to a Logger without prefix and
\* suffix, was dispatched to the logger "disk.io"
C9_Witness ==
    /\ pc = "logWriterFunc"
    /\ logger_prefix = <<>>
    /\ logger_suffix = <<>>
    /\ ~call.logfields.is_dict
    /\ "GLIB_DOMAIN" \in DOMAIN call.fields
    /\ call.fields["GLIB_DOMAIN"] = StrVal(<<100, 105, 115, 107, 45, 105, 111>>)
    /\ Len(dispatched) = 1
    /\ dispatched[1].logger = <<100, 105, 115, 107, 46, 105, 111>>

\* the texts whose UTF-8 form the bytes drawn can be
ValidTexts == SeqsUpTo({97, 233}, MaxBytesLen + 1)

\* C10: the message of the record is the MESSAGE field: a text is used
\* unchanged, bytes are decoded (valid UTF-8 to the text it encodes, anything
\* else to a text with replacement characters) and never make the call
\* fail, and an absent field gives the empty message.
C10_Message ==
    pc = "logWriterFunc" =>
        /\ ret = HANDLED
        /\ Len(dispatched) = 1
        /\ LET msg == dispatched[1].record.msg
               fields == call.fields
           IN IF "MESSAGE" \notin DOMAIN fields THEN msg = <<>>
              ELSE IF fields["MESSAGE"].tag = "str" THEN msg = fields["MESSAGE"].val
              ELSE IF \E t \in ValidTexts : Utf8Encode(t) = fields["MESSAGE"].val
              THEN Utf8Encode(msg) = fields["MESSAGE"].val
              ELSE /\ \E i \in 1..Len(msg) : msg[i] = 65533
                   /\ \A i \in 1..Len(msg) : msg[i] \in {65533, 97, 233}

\* bytes that are no UTF-8 were passed by GLib as the MESSAGE and dispatched
\* as the replacement character
C10_Witness ==
    /\ pc = "logWriterFunc"
    /\ ~call.logfields.is_dict
    /\ "MESSAGE" \in DOMAIN call.fields
    /\ call.fields["MESSAGE"] = BytesVal(<<195>>)
    /\ ret = HANDLED
    /\ Len(dispatched) = 1
    /\ dispatched[1].record.msg = <<ReplacementChar>>

---------------------------------------------------------------------------
(* Logger._fields_to_dict on every field GLib may pass                     *)

\* the LogFields drawn for a key: every buffer with every length it can be
\* read with (-1 for a C string; the buffer always ends in a NUL), and a
\* null pointer with every length
DecodeFields(key) ==
    UNION {{LogField(key, n, 1, b \o <<NUL>>) : n \in (0 - 1)..Len(b)} :
              b \in SeqsUpTo(ByteAlphabet, MaxBytesLen)}
    \cup {LogField(key, n, NULL, <<>>) : n \in (0 - 1)..MaxBytesLen}

\* the fields drawn to stand next to them in a list
OtherFields ==
    {TextField("GLIB_DOMAIN", <<97, 233>>),
     LogField("GLIB_DOMAIN", 0 - 1, 1, <<255, NUL>>),
     LogField("GLIB_DOMAIN", 1, 1, <<NUL, NUL>>)}

\* the lists drawn: a field alone, before another field and after it
DecodeFieldLists ==
    {<<f>> : f \in DecodeFields("MESSAGE")}
    \cup {<<f, g>> : f \in DecodeFields("MESSAGE"), g \in OtherFields}
    \cup {<<g, f>> : f \in DecodeFields("MESSAGE"), g \in OtherFields}

InitDecode ==
    /\ NoCalls
    /\ LoggerConstructed
    /\ \E logfields \in DecodeFieldLists : call = [logfields |-> logfields]

FieldsToDict ==
    /\ pc = "init"
    /\ pc' = "fields_to_dict"
    /\ ret' = fields_to_dict(call.logfields)
    /\ native' = native
    /\ Untouched

SpecDecode == InitDecode /\ [][FieldsToDict]_vars

\* the fields of the list decoded last
DecodedFields == {call.logfields[i] : i \in 1..Len(call.logfields)}

\* C11: a field with a buffer and a declared length L >= 0 is decoded to
\* bytes, exactly the first L bytes of the buffer, and never to text, whether
\* the bytes hold a NUL or are valid UTF-8; a field of length 0 is decoded to
\* the empty bytes whatever its key.
C11_DeclaredLengthGivesBytes ==
    pc = "fields_to_dict" =>
        \A f \in DecodedFields :
            /\ f.length >= 0 /\ f.value # NULL =>
                   /\ f.key \in DOMAIN ret
                   /\ ret[f.key].tag = "bytes"
                   /\ Len(ret[f.key].val) = f.length
                   /\ \A j \in 1..f.length : ret[f.key].val[j] = f.mem[j]
            /\ f.length = 0 =>
                   f.key \in DOMAIN ret /\ ret[f.key] = BytesVal(<<>>)

\* two bytes declared, a NUL and an "a", which are valid UTF-8: both came out
\* as bytes
C11_Witness ==
    /\ pc = "fields_to_dict"
    /\ call.logfields = <<LogField("MESSAGE", 2, 1, <<NUL, 97, NUL>>)>>
    /\ ret = Dict1("MESSAGE", BytesVal(<<NUL, 97>>))

\* the bytes of a C string: those before the first NUL of the buffer
CString(mem) == BeforeNul(mem)

\* C12: a field of length -1 with a buffer is decoded to the text its C
\* string encodes when that is valid UTF-8, and to the bytes of the C string
\* when it is not; no field makes the decoding of the list fail, every key
\* of the list is in the result.
C12_TextOrRawBytes ==
    pc = "fields_to_dict" =>
        /\ DOMAIN ret = {f.key : f \in DecodedFields}
        /\ \A f \in DecodedFields :
               f.length = 0 - 1 /\ f.value # NULL =>
                   IF \E t \in ValidTexts : Utf8Encode(t) = CString(f.mem)
                   THEN /\ ret[f.key].tag = "str"
                        /\ Utf8Encode(ret[f.key].val) = CString(f.mem)
                   ELSE ret[f.key] = BytesVal(CString(f.mem))

\* a C string that is no UTF-8 came out as its bytes, and the field after it
\* as its text
C12_Witness ==
    /\ pc = "fields_to_dict"
    /\ call.logfields = <<LogField("MESSAGE", 0 - 1, 1, <<195, 97, NUL>>),
                          TextField("GLIB_DOMAIN", <<97, 233>>)>>
    /\ ret = Dict2("MESSAGE", BytesVal(<<195, 97>>),
                 "GLIB_DOMAIN", StrVal(<<97, 233>>))

\* C13, as it is stated: a field of length -1 with a null pointer is
\* skipped, its key is not in the result.
C13_NullPointerIsSkipped ==
    pc = "fields_to_dict" =>
        \A f \in DecodedFields :
            f.length = 0 - 1 /\ f.value = NULL => f.key \notin DOMAIN ret

\* C13: a field with a null pointer is not skipped: its key is in the result
\* with the empty bytes, for the length -1 as for every other length, as the
\* key of a field of length 0 is.
C13_NullPointerGivesEmptyBytes ==
    pc = "fields_to_dict" =>
        \A f \in DecodedFields :
            f.value = NULL \/ f.length = 0 =>
                f.key \in DOMAIN ret /\ ret[f.key] = BytesVal(<<>>)

\* a field of length -1 with a null pointer came out as the empty bytes
C13_Witness ==
    /\ pc = "fields_to_dict"
    /\ call.logfields = <<LogField("MESSAGE", 0 - 1, NULL, <<>>)>>
    /\ ret = Dict1("MESSAGE", BytesVal(<<>>))

---------------------------------------------------------------------------
(* The handlers of python2glib on the records of an application            *)

TextDiskIoName == <<100, 105, 115, 107, Dot, 105, 111>>
TextABC == <<97, Dot, 98, Dot, 99>>
TextFailed == <<102, 97, 105, 108, 101, 100, 58, 32, 37, 115>>
TextTimeout == <<116, 105, 109, 101, 111, 117, 116>>
TextFailedTimeout ==
    <<102, 97, 105, 108, 101, 100, 58, 32, 116, 105, 109, 101, 111, 117, 116>>
TextSensorHub == <<115, 101, 110, 115, 111, 114, Hyphen, 104, 117, 98>>
TextWithNul == <<97, NUL, 98>>
Text42 == <<52, 50>>

\* the handler objects constructed: of each class, one with the defaults and
\* one with other arguments
EgressHandlers ==
    {Handler("LoggerHandler", <<Hyphen>>, <<>>, <<>>),
     Handler("LoggerHandler", <<95>>, TextPrefix, TextSuffix),
     Handler("GLibWriterHandler", <<Hyphen>>, <<>>, <<>>),
     HandlerWithUserData(Handler("GLibWriterHandler", <<95>>, TextPrefix, <<>>),
                         StrVal(TextX)),
     Handler("GLibLogHandler", <<Hyphen>>, <<>>, <<>>),
     HandlerWithUserData(Handler("GLibLogHandler", <<95>>, <<>>, TextSuffix),
                         IntVal(7))}

\* the handlers attached to the logger of a record, in the order logging
\* calls them: one handler, or two different ones
HandlerLists ==
    {<<h>> : h \in EgressHandlers}
    \cup {p \in {<<h, g>> : h \in EgressHandlers, g \in EgressHandlers} :
              p[1] # p[2]}

\* the glib_fields an application attaches to a record
EgressGlibFields ==
    {NoGlibFields,
     GlibFieldsOther,
     GlibFieldsDict(Dict1("GLIB_DOMAIN", StrVal(TextSensorHub))),
     GlibFieldsDict(Dict3("MESSAGE", BytesVal(<<255, NUL>>),
                          "PRIORITY", IntVal(42),
                          "CODE_PATH", VariantString(TextHi))),
     GlibFieldsDict(Dict2("MESSAGE", StrVal(TextX),
                          "CODE_FUNC", StrVal(TextWithNul)))}

\* the records of the application
EgressRecords ==
    {AppRecord(name, level, m.msg, m.args, exc_info, glib_fields) :
        name \in {TextDiskIoName, TextApp, TextABC},
        level \in {5, INFO, ERROR},
        m \in {[msg |-> TextFailed, args |-> StrVal(TextTimeout)],
               [msg |-> TextHi, args |-> NoneVal],
               [msg |-> TextWithNul, args |-> NoneVal]},
        exc_info \in {NoExcInfo, ExcInfo(TextX, TextHi)},
        glib_fields \in EgressGlibFields}

\* call.record is the record object, call.queue the handlers that have not
\* been given it yet and call.handler the one that was given it last;
\* call.given is the record as the application made it and call.done the
\* classes of the handlers that have been given it; no
\* Logger of glib2python takes part, its attributes stay the defaults
InitEgress ==
    /\ NoCalls
    /\ logger_prefix = <<>>
    /\ logger_suffix = <<>>
    /\ use_priority_field = FALSE
    /\ \E rec \in EgressRecords, handlers \in HandlerLists :
          call = [record |-> rec, queue |-> handlers, handler |-> Head(handlers),
                  fields_dict |-> EmptyDict, errors |-> 0, warnings |-> 0,
                  writer_result |-> NoneVal, given |-> rec, done |-> <<>>]

\* the next handler of the logger is called, unless one has raised
NextHandler(class) ==
    /\ raised = "none"
    /\ call.queue # <<>>
    /\ Head(call.queue).class = class

EgressUnchanged ==
    UNCHANGED <<logger_prefix, logger_suffix, use_priority_field, dispatched,
                nInvoke, nHandle, nHandled, nUnhandled, nHandleRaised>>

\* a handler of the application, attached before those of the bridge, has
\* formatted the record (logging.StreamHandler.emit calls self.format)
OtherHandlerFormats ==
    /\ pc = "init"
    /\ "message" \notin DOMAIN call.record
    /\ call' = [call EXCEPT !.record = FormatterFormat(call.record)]
    /\ UNCHANGED <<pc, ret, raised, native>>
    /\ EgressUnchanged

\* LoggerHandler.emit; self.format(record) leaves the message on the record
\* and _convert_fields_dict the variants in the dict of the fields
EgressEmit ==
    /\ NextHandler("LoggerHandler")
    /\ \E r \in {emit(Head(call.queue), call.record)} :
          /\ pc' = "emit"
          /\ call' = [record |-> RecordAfterWrites(FormatterFormat(call.record),
                                      get_fields_object(call.record, TRUE),
                                      r.native[1].fields),
                      queue |-> Tail(call.queue), handler |-> Head(call.queue),
                      fields_dict |-> r.fields_dict, errors |-> r.errors,
                      warnings |-> r.warnings, writer_result |-> NoneVal,
                      given |-> call.given,
                      done |-> Append(call.done, "LoggerHandler")]
          /\ ret' = r.ret
          /\ raised' = "none"
          /\ native' = r.native
    /\ EgressUnchanged

\* GLibWriterHandler.emit, with what the writer function returns
EgressWriterEmit ==
    /\ NextHandler("GLibWriterHandler")
    /\ \E writer_result \in {HANDLED, UNHANDLED} :
        \E r \in {writer_emit(Head(call.queue), call.record, writer_result)} :
          /\ pc' = "writer_emit"
          /\ call' = [record |-> RecordAfterWrites(FormatterFormat(call.record),
                                      get_fields_object(call.record, TRUE),
                                      r.fields_dict),
                      queue |-> Tail(call.queue), handler |-> Head(call.queue),
                      fields_dict |-> r.fields_dict, errors |-> r.errors,
                      warnings |-> r.warnings,
                      writer_result |-> StrVal(writer_result),
                      given |-> call.given,
                      done |-> Append(call.done, "GLibWriterHandler")]
          /\ ret' = r.ret
          /\ raised' = "none"
          /\ native' = r.native
    /\ EgressUnchanged

\* GLibLogHandler.emit; an exception of emit goes up to the logging call of
\* the application, past the handlers left
EgressLogEmit ==
    /\ NextHandler("GLibLogHandler")
    /\ \E r \in {log_emit(Head(call.queue), call.record)} :
          /\ pc' = "log_emit"
          /\ call' = [call EXCEPT !.queue = Tail(call.queue),
                                  !.handler = Head(call.queue),
                                  !.done = Append(call.done, "GLibLogHandler")]
          /\ ret' = r.ret
          /\ raised' = r.raised
          /\ native' = r.native
    /\ EgressUnchanged

NextEgress ==
    OtherHandlerFormats \/ EgressEmit \/ EgressWriterEmit \/ EgressLogEmit

SpecEgress == InitEgress /\ [][NextEgress]_vars

\* the logger name with every dot replaced by the one character c
DotsReplaced(name, c) ==
    [i \in 1..Len(name) |-> IF name[i] = Dot THEN c ELSE name[i]]

\* the domain the handler of the last call derives from the logger name
DerivedDomain ==
    call.handler.log_domain_prefix
        \o DotsReplaced(call.record.name, call.handler.replace_module_char[1])
        \o call.handler.log_domain_suffix

\* the GLib level of the level of the record: nothing above a warning
MappedSeverity ==
    IF call.record.levelno >= WARNING THEN LEVEL_WARNING
    ELSE IF call.record.levelno >= INFO THEN LEVEL_INFO
    ELSE LEVEL_DEBUG

\* the record of the last call carries a dict of fields with this key
OriginHas(key) ==
    /\ call.record.glib_fields.kind = "dict"
    /\ key \in DOMAIN call.record.glib_fields.items

\* exactly one GLib.log_variant call was made, with the derived domain and
\* the mapped level
OneVariantLogCall ==
    /\ Len(native) = 1
    /\ native[1].func = "log_variant"
    /\ native[1].log_domain = DerivedDomain
    /\ native[1].log_level = MappedSeverity
    /\ "MESSAGE" \in DOMAIN native[1].fields

\* C14, as it is stated: for every record LoggerHandler.emit makes exactly
\* one GLib.log_variant call, with the domain derived from the logger name,
\* the mapped level and a MESSAGE that is the formatted text of the record.
C14_MessageIsFormattedText ==
    pc = "emit" =>
        /\ OneVariantLogCall
        /\ native[1].fields["MESSAGE"] =
               [tag |-> "variant_s", val |-> format(call.record)]

\* C14: for every record LoggerHandler.emit makes exactly one
\* GLib.log_variant call, with the domain derived from the logger name and
\* the mapped level; its MESSAGE is the formatted text of the record up to
\* its first NUL, unless the record carries a dict of fields with a MESSAGE,
\* which is sent in its place: bytes as bytes, a text up to its first NUL.
C14_OneVariantLogCall ==
    pc = "emit" =>
        /\ OneVariantLogCall
        /\ ~OriginHas("MESSAGE") =>
               native[1].fields["MESSAGE"] =
                   [tag |-> "variant_s", val |-> BeforeNul(format(call.record))]
        /\ OriginHas("MESSAGE") =>
               LET v == call.record.glib_fields.items["MESSAGE"]
               IN native[1].fields["MESSAGE"] =
                      IF v.tag = "bytes" THEN [tag |-> "variant_ay", val |-> v.val]
                      ELSE [tag |-> "variant_s", val |-> BeforeNul(v.val)]

\* the error "failed: %s" % "timeout" of the logger "disk.io" went out in the
\* domain "disk-io" as a warning with the MESSAGE "failed: timeout"
C14_Witness ==
    /\ pc = "emit"
    /\ call.record.name = TextDiskIoName
    /\ call.record.levelno = ERROR
    /\ call.record.msg = TextFailed
    /\ call.record.args = StrVal(TextTimeout)
    /\ Len(native) = 1
    /\ native[1].log_domain = TextDiskIo
    /\ native[1].log_level = LEVEL_WARNING
    /\ native[1].fields["MESSAGE"] = [tag |-> "variant_s", val |-> TextFailedTimeout]

\* the text of the field GLIB_DOMAIN in a list of LogFields, <<>> without one
DomainOfFieldList(fields) ==
    LET d == fields_to_dict(fields)
    IN IF "GLIB_DOMAIN" \in DOMAIN d THEN d["GLIB_DOMAIN"].val ELSE <<>>

\* the domain of the event GLib is given: the domain argument of
\* GLib.log_variant and of the log handler, the GLIB_DOMAIN of the writer
NativeDomain ==
    IF native[1].func = "writer" THEN DomainOfFieldList(native[1].fields)
    ELSE native[1].log_domain

Given(k) == call.fields_dict[k]
Encoded(k) == native[1].fields[k]

\* C16: _convert_fields_dict keeps the keys of the dict; a GLib.Variant stays
\* as it is, bytes become a byte array of the same bytes and every other
\* value becomes the GLib text of its str(), which ends at a NUL if it has
\* one.
C16_ValuesClassified ==
    pc = "emit" =>
        /\ DOMAIN native[1].fields = DOMAIN call.fields_dict
        /\ \A k \in DOMAIN call.fields_dict :
               CASE Given(k).tag \in {"variant_s", "variant_ay"} ->
                        Encoded(k) = Given(k)
                 [] Given(k).tag = "bytes" ->
                        Encoded(k) = [tag |-> "variant_ay", val |-> Given(k).val]
                 [] Given(k).tag = "str" ->
                        Encoded(k) = [tag |-> "variant_s",
                                      val |-> BeforeNul(Given(k).val)]
                 [] Given(k).tag = "int" ->
                        /\ Encoded(k).tag = "variant_s"
                        /\ ParseInt(Encoded(k).val) = Return(Given(k).val[1])
                 [] OTHER -> Encoded(k).tag = "variant_s"

\* the integer 42 went out as the text "42", next to bytes that went out as
\* bytes and a variant that went out as it was
C16_Witness ==
    /\ pc = "emit"
    /\ {"PRIORITY", "CODE_PATH"} \subseteq DOMAIN call.fields_dict
    /\ call.fields_dict["PRIORITY"] = IntVal(42)
    /\ native[1].fields["PRIORITY"] = [tag |-> "variant_s", val |-> Text42]
    /\ native[1].fields["MESSAGE"] = [tag |-> "variant_ay", val |-> <<255, NUL>>]
    /\ native[1].fields["CODE_PATH"] = call.fields_dict["CODE_PATH"]
    /\ call.fields_dict["CODE_PATH"].tag = "variant_s"

\* the text str() gives for the value, for the values that have one here
HasText(v) == v.tag \in {"str", "int", "none"}
HasNul(t) == \E i \in 1..Len(t) : t[i] = NUL

\* the keys whose value is stringified to a text with a NUL
KeysWithNul ==
    {k \in DOMAIN call.fields_dict : HasText(Given(k)) /\ HasNul(PyStr(Given(k)))}

\* C17: for a value whose str() has a NUL a warning is logged and the text
\* sent is the str() up to the first NUL; the conversion goes on: every
\* text without a NUL is sent whole, bytes are sent whole, and the
\* GLib.log_variant call is made.
C17_CutAtNul ==
    pc = "emit" =>
        /\ Len(native) = 1
        /\ raised = "none"
        /\ call.warnings = Cardinality(KeysWithNul)
        /\ \A k \in KeysWithNul :
               /\ Encoded(k).tag = "variant_s"
               /\ Len(Encoded(k).val) < Len(PyStr(Given(k)))
               /\ ~HasNul(Encoded(k).val)
               /\ PyStr(Given(k))[Len(Encoded(k).val) + 1] = NUL
               /\ Encoded(k).val = SubSeq(PyStr(Given(k)), 1, Len(Encoded(k).val))
        /\ \A k \in DOMAIN call.fields_dict \ KeysWithNul :
               /\ HasText(Given(k)) => Encoded(k).val = PyStr(Given(k))
               /\ Given(k).tag = "bytes" => Encoded(k).val = Given(k).val

\* the message "a\0b" went out as "a" with a warning, the logger name whole
C17_Witness ==
    /\ pc = "emit"
    /\ call.fields_dict["MESSAGE"] = StrVal(TextWithNul)
    /\ native[1].fields["MESSAGE"] = [tag |-> "variant_s", val |-> <<97>>]
    /\ native[1].fields["PYTHON_LOGGER"].val = call.record.name
    /\ call.warnings >= 1

\* the LogFields of the last writer call
WriterFields == native[1].fields
WriterField(i) == native[1].fields[i]

\* C18: GLibWriterHandler.emit calls the writer function exactly once, with
\* the mapped level, the user data and one LogField for every key of the
\* fields: of length -1 with the NUL-terminated UTF-8 for a text, with the
\* bytes and their number for bytes, with the UTF-8 of str() and its number
\* of bytes for every other value; emit returns what the writer returned.
C18_OneWriterCall ==
    pc = "writer_emit" =>
        /\ Len(native) = 1
        /\ native[1].func = "writer"
        /\ native[1].log_level = MappedSeverity
        /\ native[1].user_data = call.handler.user_data
        /\ StrVal(ret) = call.writer_result
        /\ Len(WriterFields) = Cardinality(DOMAIN call.fields_dict)
        /\ {WriterField(i).key : i \in 1..Len(WriterFields)} = DOMAIN call.fields_dict
        /\ \A i \in 1..Len(WriterFields) :
               LET f == WriterField(i)
                   v == call.fields_dict[f.key]
               IN /\ f.value # NULL
                  /\ CASE v.tag = "str" ->
                              /\ f.length = 0 - 1
                              /\ f.mem = Utf8Encode(v.val) \o <<NUL>>
                       [] v.tag = "bytes" ->
                              f.length = Len(v.val) /\ f.mem = v.val
                       [] OTHER ->
                              /\ f.length = Len(f.mem)
                              /\ f.mem = Utf8Encode(PyStr(v))

\* the writer was given the user data "x", the text "hi" as a C string and
\* the integer 42 as the two bytes "42", and its UNHANDLED was returned
C18_Witness ==
    /\ pc = "writer_emit"
    /\ ret = UNHANDLED
    /\ native[1].user_data = StrVal(TextX)
    /\ \E i \in 1..Len(WriterFields) :
          WriterField(i) = LogField("PYTHON_MESSAGE", 0 - 1, 1, <<104, 105, NUL>>)
    /\ \E i \in 1..Len(WriterFields) :
          WriterField(i) = LogField("PRIORITY", 2, 1, Text42)

\* C19: for every record GLibLogHandler.emit calls the handler function
\* exactly once, with the domain derived from the logger name, the mapped
\* level, the message of the record and the user data, whether the record
\* was formatted by another handler before or not.
C19_OneHandlerCall ==
    pc = "log_emit" =>
        /\ raised = "none"
        /\ Len(native) = 1
        /\ native[1] = [func |-> "handler", log_domain |-> DerivedDomain,
                        log_level |-> MappedSeverity,
                        message |-> getMessage(call.record),
                        user_data |-> call.handler.user_data]

---------------------------------------------------------------------------
(* Logger._get_logger_name and LoggerHandler._get_log_domain, one after    *)
(* the other, with the default arguments of both constructors              *)

\* the texts drawn as domains and as logger names
NameTexts == SeqsUpTo({97, Hyphen, Dot}, MaxDomainLen)

\* LoggerHandler(): the replacement character "-", no prefix, no suffix
DefaultHandler == Handler("LoggerHandler", <<Hyphen>>, <<>>, <<>>)

\* the logger name Logger() gives the domain
LoggerNameOf(domain) ==
    get_logger_name(Self, Dict1("GLIB_DOMAIN", StrVal(domain))).value

\* the domain LoggerHandler() gives a record of the logger
LogDomainOf(name) ==
    get_log_domain(DefaultHandler,
                   AppRecord(name, INFO, TextHi, NoneVal, NoExcInfo, NoGlibFields))

InitNames ==
    /\ NoCalls
    /\ logger_prefix = <<>>
    /\ logger_suffix = <<>>
    /\ use_priority_field = FALSE
    /\ \E text \in NameTexts : call = [text |-> text]

\* a domain of GLib becomes a logger name, and the name a domain again
DomainToName ==
    /\ pc = "init"
    /\ pc' = "domain_to_name"
    /\ \E name \in {LoggerNameOf(call.text)} :
          ret' = [there |-> name, back |-> LogDomainOf(name)]
    /\ native' = native
    /\ Untouched

\* a logger name becomes a domain of GLib, and the domain a name again
NameToDomain ==
    /\ pc = "init"
    /\ pc' = "name_to_domain"
    /\ \E domain \in {LogDomainOf(call.text)} :
          ret' = [there |-> domain, back |-> LoggerNameOf(domain)]
    /\ native' = native
    /\ Untouched

SpecNames == InitNames /\ [][DomainToName \/ NameToDomain]_vars

HasChar(t, c) == \E i \in 1..Len(t) : t[i] = c

\* C20: with the default arguments the two conversions invert each other: a
\* domain without a dot comes back from the logger name it is given, and a
\* logger name without a hyphen comes back from the domain it is given.
C20_NamesInvert ==
    /\ pc = "domain_to_name" /\ ~HasChar(call.text, Dot) =>
           /\ ret.back = call.text
           /\ ~HasChar(ret.there, Hyphen)
    /\ pc = "name_to_domain" /\ ~HasChar(call.text, Hyphen) =>
           /\ ret.back = call.text
           /\ ~HasChar(ret.there, Dot)

\* the domain "a-a" became the logger name "a.a" and came back
C20_Witness ==
    /\ pc = "domain_to_name"
    /\ call.text = <<97, Hyphen, 97>>
    /\ ret = [there |-> <<97, Dot, 97>>, back |-> <<97, Hyphen, 97>>]

---------------------------------------------------------------------------
(* LoggerHandler._get_fields on the records of an application              *)

TextValueError ==
    <<98, 117, 105, 108, 116, 105, 110, 115, Dot, 86, 97, 108, 117, 101,
      69, 114, 114, 111, 114>>

\* the exc_info a record may hold: None, the triple of a caught exception,
\* and the triple (None, None, None) that logging stores for exc_info=True
\* outside of an except block
FieldsExcInfos ==
    {NoExcInfo, EmptyExcInfo, ExcInfo(TextValueError, TextHi),
     ExcInfo(TextX, <<>>)}

\* the records _get_fields is called with
FieldsRecords ==
    {AppRecord(name, INFO, m.msg, m.args, exc_info, glib_fields) :
        name \in {TextDiskIoName, TextApp},
        m \in {[msg |-> TextFailed, args |-> StrVal(TextTimeout)],
               [msg |-> <<>>, args |-> NoneVal]},
        exc_info \in FieldsExcInfos,
        glib_fields \in EgressGlibFields}

InitGetFields ==
    /\ NoCalls
    /\ LoggerConstructed
    /\ \E rec \in FieldsRecords, update_from_record \in BOOLEAN :
          call = [record |-> rec, update_from_record |-> update_from_record]

GetFields ==
    /\ pc = "init"
    /\ pc' = "get_fields"
    /\ ret' = get_fields(call.record, call.update_from_record)
    /\ native' = native
    /\ Untouched

SpecGetFields == InitGetFields /\ [][GetFields]_vars

\* C21: the fields built before glib_fields is merged hold PYTHON_EXC, the
\* qualified name of the exception type, and PYTHON_EXC_MESSAGE, the str()
\* of the exception, exactly when the record carries an exception; with no
\* exc_info, or an exc_info that holds no exception, neither key is there.
C21_ExceptionFieldsIffException ==
    pc = "get_fields" /\ ~call.update_from_record =>
        IF call.record.exc_info.kind = "exception"
        THEN /\ {"PYTHON_EXC", "PYTHON_EXC_MESSAGE"} \subseteq DOMAIN ret
             /\ ret["PYTHON_EXC"] = StrVal(call.record.exc_info.type_name)
             /\ ret["PYTHON_EXC_MESSAGE"] = StrVal(call.record.exc_info.text)
        ELSE /\ "PYTHON_EXC" \notin DOMAIN ret
             /\ "PYTHON_EXC_MESSAGE" \notin DOMAIN ret

\* a descriptor of the last writer call has the key
WriterHasKey(key) == \E i \in 1..Len(WriterFields) : WriterField(i).key = key

\* C23: whatever fields the record carries, the dict _get_fields builds has
\* the key MESSAGE: LoggerHandler.emit never logs its error about a missing
\* MESSAGE, and GLib.log_variant and the writer function are always given a
\* MESSAGE.
C23_MessageAlwaysPresent ==
    /\ pc \in {"emit", "writer_emit"} => "MESSAGE" \in DOMAIN call.fields_dict
    /\ pc = "emit" =>
           /\ call.errors = 0
           /\ "MESSAGE" \in DOMAIN native[1].fields
    /\ pc = "writer_emit" => WriterHasKey("MESSAGE")

\* a record that carries fields without a MESSAGE went out with the MESSAGE
\* of its text, with no error logged
C23_Witness ==
    /\ pc = "emit"
    /\ OriginHas("GLIB_DOMAIN")
    /\ ~OriginHas("MESSAGE")
    /\ call.record.msg = TextHi
    /\ call.record.exc_info = NoExcInfo
    /\ call.errors = 0
    /\ native[1].fields["MESSAGE"] = [tag |-> "variant_s", val |-> TextHi]

---------------------------------------------------------------------------
(* glib2python.FilterGLibMessagesDebug *)

Space == 32

\* str.split(' ') from the piece cur on: a piece ends at every space, so two
\* spaces in a row, and the empty text, give an empty piece
RECURSIVE SplitFrom(_, _)
SplitFrom(s, cur) ==
    IF s = <<>> THEN <<cur>>
    ELSE IF Head(s) = Space THEN <<cur>> \o SplitFrom(Tail(s), <<>>)
    ELSE SplitFrom(Tail(s), Append(cur, Head(s)))

Split(s) == SplitFrom(s, <<>>)

\* os.environ.get('G_MESSAGES_DEBUG', ''): NoneVal stands for a variable
\* that is not set
EnvironGet(environ) == IF environ = NoneVal THEN <<>> ELSE environ.val

HyphenToDot(d) == Replace(d, Hyphen, Dot)

default_g_messages_debug(environ) == SeqMap(HyphenToDot, Split(EnvironGet(environ)))

TextAll == <<97, 108, 108>>

\* "x in l" for a list
InList(x, l) == \E i \in 1..Len(l) : l[i] = x

\* FilterGLibMessagesDebug(g_messages_debug): the attributes __init__ sets;
\* the argument is a list, or None (is_none) for the default
FilterGLibMessagesDebug(g_messages_debug, environ) ==
    With(IF g_messages_debug.is_none THEN default_g_messages_debug(environ)
         ELSE g_messages_debug.list,
         LAMBDA l : [g_messages_debug |-> l, all |-> InList(TextAll, l)])

\* "line in name" for two texts: line is a piece of name
IsSubstring(line, name) ==
    \E i \in 0..(Len(name) - Len(line)) : SubSeq(name, i + 1, i + Len(line)) = line

\* FilterGLibMessagesDebug.filter: 0 to drop the record, 1 to go on
filter(self, rec) ==
    IF rec.levelno # DEBUG \/ self.all THEN 1
    ELSE IF \E i \in 1..Len(self.g_messages_debug) :
                IsSubstring(self.g_messages_debug[i], rec.name)
         THEN 1
    ELSE 0

---------------------------------------------------------------------------
(* The filter on the records of the loggers *)

MaxDebugLen == 3

\* the values of G_MESSAGES_DEBUG: not set, every short text of "a", "-" and
\* spaces, and texts with "all"
EnvironValues ==
    {NoneVal}
    \cup {StrVal(t) : t \in SeqsUpTo({97, Hyphen, Space}, MaxDebugLen)}
    \cup {StrVal(TextAll), StrVal(<<97, Space>> \o TextAll), StrVal(TextApp)}

\* the lists passed to the constructor
DebugLists ==
    {<<>>, <<TextAll>>, <<TextApp>>, <<<<97>>, TextApp>>, <<<<97, Dot, 97>>>>}

\* the records filtered
FilterRecords ==
    {AppRecord(name, level, TextHi, NoneVal, NoExcInfo, NoGlibFields) :
        name \in {<<97>>, <<97, Dot, 97>>, TextApp, <<98>>},
        level \in {5, DEBUG, INFO, ERROR}}

\* a filter constructed from the environment, or from a list
InitFilter ==
    /\ NoCalls
    /\ LoggerConstructed
    /\ \E e \in EnvironValues, l \in DebugLists, is_none \in BOOLEAN,
          rec \in FilterRecords :
          /\ is_none => l = <<>>
          /\ ~is_none => e = NoneVal
          /\ call = [environ |-> e, is_none |-> is_none,
                     filter |-> FilterGLibMessagesDebug(
                                    [is_none |-> is_none, list |-> l], e),
                     record |-> rec]

Filter ==
    /\ pc = "init"
    /\ pc' = "filter"
    /\ ret' = filter(call.filter, call.record)
    /\ native' = native
    /\ Untouched

SpecFilter == InitFilter /\ [][Filter]_vars

\* the filter was constructed from a G_MESSAGES_DEBUG that is not set or
\* empty
DefaultConfiguration ==
    call.is_none /\ call.environ \in {NoneVal, StrVal(<<>>)}

\* C22: the filter returns 0 exactly when the level of the record is DEBUG,
\* "all" is not configured and the logger name is not in the configured
\* list; with the configuration of a G_MESSAGES_DEBUG that is not set or
\* empty it returns 0 for every DEBUG record and 1 for every other.
C22_DropsUnlistedDebug ==
    pc = "filter" =>
        /\ ret = 0 <=>
               /\ call.record.levelno = DEBUG
               /\ ~InList(TextAll, call.filter.g_messages_debug)
               /\ ~InList(call.record.name, call.filter.g_messages_debug)
        /\ DefaultConfiguration => (ret = 0 <=> call.record.levelno = DEBUG)

---------------------------------------------------------------------------
(* The fields of LoggerHandler._get_fields handed to Logger.logWriterFunc  *)

\* the records of the application: call sites with and without a function
\* name and a path, as logging and as this bridge make them
CallSiteRecords ==
    {[AppRecord(name, INFO, TextHi, NoneVal, NoExcInfo, NoGlibFields)
          EXCEPT !.lineno = line_no, !.funcName = func_name, !.pathname = path_name] :
        name \in {TextApp, TextDiskIoName},
        line_no \in {0, 7, 12, 120},
        func_name \in {StrVal(TextHi), StrVal(<<233>>), StrVal(<<>>), NoneVal},
        path_name \in {StrVal(TextX), StrVal(TextDiskIoName), NoneVal}}

\* how the fields reach the writer function: the dict of _get_fields as it
\* is, or the list of LogFields GLibWriterHandler makes of it
Routes == {"dict", "list"}

\* the fields of the record as they arrive
RoutedFields(route, rec) ==
    IF route = "dict" THEN FieldDict(get_fields(rec, TRUE))
    ELSE FieldList(convert_fields(
             writer_get_fields(Handler("GLibWriterHandler", <<Hyphen>>, <<>>, <<>>),
                               rec, TRUE)))

InitCallSite ==
    /\ NoCalls
    /\ LoggerConstructed
    /\ \E rec \in CallSiteRecords, route \in Routes :
          call = [record |-> rec, route |-> route,
                  logfields |-> RoutedFields(route, rec)]

\* logWriterFunc on the fields, with a Logger.handle that returns
CallSiteRoundTrip ==
    /\ pc = "init"
    /\ pc' = "round_trip"
    /\ \E r \in {logWriterFunc(Self, LEVEL_INFO, call.logfields, FALSE, "none")} :
          /\ ret' = r.ret
          /\ raised' = r.raised
          /\ dispatched' = r.handle_calls
    /\ UNCHANGED <<logger_prefix, logger_suffix, use_priority_field, call, native,
                   nInvoke, nHandle, nHandled, nUnhandled, nHandleRaised>>

SpecCallSite == InitCallSite /\ [][CallSiteRoundTrip]_vars

\* C25: the record ingress makes of the fields egress built for a record
\* without glib_fields has the line number of the original and its function
\* name, and no path: the path was written under CODE_FILE and is read from
\* CODE_PATH.  (The function name is compared where the fields are handed
\* over as the dict, and where they are handed over as LogFields and the
\* name is a text.)
C25_CallSiteRoundTrip ==
    pc = "round_trip" =>
        /\ ret = HANDLED
        /\ Len(dispatched) = 1
        /\ dispatched[1].record.lineno = call.record.lineno
        /\ dispatched[1].record.pathname = NoneVal
        /\ call.route = "dict" \/ call.record.funcName.tag = "str" =>
               dispatched[1].record.funcName = call.record.funcName

\* line 12 of the function "hi" in the file "x", handed over as LogFields,
\* came out as line 12 of the function "hi" without a file
C25_Witness ==
    /\ pc = "round_trip"
    /\ call.route = "list"
    /\ call.record.lineno = 12
    /\ call.record.funcName = StrVal(TextHi)
    /\ call.record.pathname = StrVal(TextX)
    /\ Len(dispatched) = 1
    /\ dispatched[1].record.lineno = 12
    /\ dispatched[1].record.funcName = StrVal(TextHi)
    /\ dispatched[1].record.pathname = NoneVal

===========================================================================
